---- MODULE Spec2Model ----
(***************************************************************************)
(* A TLA+ model of the crab abstract domains of the soct repository:       *)
(*   - the array expansion domain (array_expansion_domain, offset_map,     *)
(*     cell) over a non-relational scalar domain,                          *)
(*   - the array smashing domain (array_smashing),                         *)
(*   - the split octagon domain (SplitOCT_ and its copy-on-write wrapper   *)
(*     SplitOCT).                                                          *)
(* Every domain value is a record; every transfer function is an operator  *)
(* from records to records, written after the C++ body it models, and an   *)
(* action that applies it to the current value.                            *)
(***************************************************************************)
EXTENDS Integers, Sequences, FiniteSets, TLC

VARIABLES array_map, inv, index_map, saved, heap, self, alias, vfac, last, nops

vars == <<array_map, inv, index_map, saved, heap, self, alias, vfac, last, nops>>

----------------------------------------------------------------------------
(* Bounds of the model.                                                    *)

\* Number of transfer functions applied in one run of the array expansion
\* domain, without and with copies and joins.
MaxOps == 3
MaxJoinOps == 5

\* The element-count limit of array_init.
max_num_elems == 512

----------------------------------------------------------------------------
(* Bounds and intervals (crab's bound_t / interval_t).  A bound is         *)
(* <<k, n>>: k = -1 for -oo, k = 1 for +oo, k = 0 for the finite number n. *)

MInf == <<-1, 0>>
PInf == <<1, 0>>
Fin(n) == <<0, n>>

BLe(b1, b2) == \/ b1[1] < b2[1]
               \/ b1[1] = b2[1] /\ (b1[1] # 0 \/ b1[2] <= b2[2])

BMin(b1, b2) == IF BLe(b1, b2) THEN b1 ELSE b2
BMax(b1, b2) == IF BLe(b1, b2) THEN b2 ELSE b1
BAdd(b1, b2) == IF b1[1] # 0 THEN b1 ELSE IF b2[1] # 0 THEN b2
                ELSE Fin(b1[2] + b2[2])

TopI == [lb |-> MInf, ub |-> PInf]
BotI == [lb |-> Fin(0), ub |-> Fin(-1)]
ConstI(n) == [lb |-> Fin(n), ub |-> Fin(n)]
IsBotI(i) == ~BLe(i.lb, i.ub)
IsTopI(i) == i.lb = MInf /\ i.ub = PInf
JoinI(i, j) == IF IsBotI(i) THEN j ELSE IF IsBotI(j) THEN i
               ELSE [lb |-> BMin(i.lb, j.lb), ub |-> BMax(i.ub, j.ub)]
MeetI(i, j) == IF IsBotI(i) \/ IsBotI(j) THEN BotI
               ELSE LET r == [lb |-> BMax(i.lb, j.lb), ub |-> BMin(i.ub, j.ub)]
                    IN IF IsBotI(r) THEN BotI ELSE r
AddI(i, j) == IF IsBotI(i) \/ IsBotI(j) THEN BotI
              ELSE [lb |-> BAdd(i.lb, j.lb), ub |-> BAdd(i.ub, j.ub)]
\* interval_t::singleton(): the value when lb = ub is finite.
IsSingleton(i) == i.lb[1] = 0 /\ i.ub[1] = 0 /\ i.lb[2] = i.ub[2]
SingletonOf(i) == i.lb[2]

----------------------------------------------------------------------------
(* Variables and linear expressions.  A program variable is <<"p", k>>, the *)
(* scalar variable of a cell is <<"c", vindex>> (vfac.get(vindex, name)).   *)

x == <<"p", 0>>
n == <<"p", 1>>
NoVar == <<"none", 0>>
ProgVars == {x, n}
Scalar(vindex) == <<"c", vindex>>

\* A linear expression k or k + v.
Const(k) == [k |-> k, v |-> NoVar]
Var(v) == [k |-> 0, v |-> v]

----------------------------------------------------------------------------
(* The scalar domain NumDomain of the array domains: a separate domain of  *)
(* intervals.  env binds the variables that are not top.                   *)

EmptyEnv == [v \in {} |-> TopI]
NumTop == [is_bottom |-> FALSE, env |-> EmptyEnv]
NumBottom == [is_bottom |-> TRUE, env |-> EmptyEnv]

NumIsBottom(d) == d.is_bottom
NumIsTop(d) == ~d.is_bottom /\ DOMAIN d.env = {}

\* operator[]
NumGet(d, v) == IF d.is_bottom THEN BotI
                ELSE IF v \in DOMAIN d.env THEN d.env[v] ELSE TopI

\* set(v, i)
NumSet(d, v, i) ==
  IF d.is_bottom THEN d
  ELSE IF IsBotI(i) THEN NumBottom
  ELSE IF IsTopI(i)
       THEN [d EXCEPT !.env = [w \in DOMAIN d.env \ {v} |-> d.env[w]]]
       ELSE [d EXCEPT !.env = [w \in DOMAIN d.env \cup {v} |->
                                 IF w = v THEN i ELSE d.env[w]]]

\* operator-=
NumForget(d, v) == NumSet(d, v, TopI)

\* to_interval(e)
to_interval(d, e) == IF e.v = NoVar THEN ConstI(e.k)
                     ELSE AddI(ConstI(e.k), NumGet(d, e.v))

\* assign(v, e)
NumAssign(d, v, e) == IF d.is_bottom THEN d ELSE NumSet(d, v, to_interval(d, e))

\* operator|
NumJoin(d1, d2) ==
  IF d1.is_bottom THEN d2 ELSE IF d2.is_bottom THEN d1
  ELSE LET both == DOMAIN d1.env \cap DOMAIN d2.env
           keep == {v \in both : ~IsTopI(JoinI(d1.env[v], d2.env[v]))}
       IN [is_bottom |-> FALSE,
           env |-> [v \in keep |-> JoinI(d1.env[v], d2.env[v])]]

\* operator+= for the constraint v <= k
NumAssumeLeq(d, v, k) ==
  IF d.is_bottom THEN d
  ELSE NumSet(d, v, MeetI(NumGet(d, v), [lb |-> MInf, ub |-> Fin(k)]))

----------------------------------------------------------------------------
(* Cells and offset maps of the array expansion domain.  A cell is         *)
(* [o, s, v]: offset, size in bytes, scalar variable (NoVar when it has    *)
(* none).  An offset map is the set of its cells; its buckets are the sets *)
(* of cells with one offset, traversed in increasing order of the offset.  *)

Arrays == {"a", "b"}

NullCell == [o |-> 0, s |-> 0, v |-> NoVar]
is_null(c) == c.o = 0 /\ c.s = 0
has_scalar(c) == c.v # NoVar

\* cell::operator== ignores the scalar variable.
CellEq(c1, c2) == c1.o = c2.o /\ c1.s = c2.s

\* A variant of cell::overlap that takes o + size for the last byte.
overlap_closed_end(c, o, size) ==
  ~IsBotI(MeetI([lb |-> Fin(c.o), ub |-> Fin(c.o + c.s)],
                [lb |-> Fin(o), ub |-> Fin(o + size)]))

\* cell::overlap: [c.o, c.o + c.s - 1] meets [o, o + size - 1].
overlap(c, o, size) ==
  ~IsBotI(MeetI([lb |-> Fin(c.o), ub |-> Fin(c.o + c.s - 1)],
                [lb |-> Fin(o), ub |-> Fin(o + size - 1)]))

Keys(m) == {c.o : c \in m}
Bucket(m, k) == {c \in m : c.o = k}
SetMax(S) == CHOOSE k \in S : \A j \in S : j <= k
SetMin(S) == CHOOSE k \in S : \A j \in S : k <= j

remove_cell(m, c) == {y \in m : ~CellEq(y, c)}

insert_cell(m, c) == IF \E y \in m : CellEq(y, c) THEN m ELSE m \cup {c}

get_cell(m, o, size) ==
  IF \E c \in m : c.o = o /\ c.s = size
  THEN CHOOSE c \in m : c.o = o /\ c.s = size
  ELSE NullCell

\* The first loop of get_overlap_cells: from the bucket of o backwards,
\* stopping at the first bucket without an overlapping cell.  ks is the set
\* of offsets not visited yet.
RECURSIVE BackwardWalk(_, _, _, _, _)
BackwardWalk(m, ks, o, size, c) ==
  IF ks = {} THEN {}
  ELSE LET k == SetMax(ks)
           hit == {y \in Bucket(m, k) : overlap(y, o, size)}
       IN IF hit = {} THEN {}
          ELSE {y \in hit : ~CellEq(y, c)}
                 \cup BackwardWalk(m, ks \ {k}, o, size, c)

\* The second loop: the offsets above o visited before the loop breaks.
RECURSIVE ForwardKeys(_, _, _, _)
ForwardKeys(m, ks, o, size) ==
  IF ks = {} THEN {}
  ELSE LET k == SetMin(ks)
       IN IF \A y \in Bucket(m, k) : ~overlap(y, o, size) THEN {}
          ELSE {k} \cup ForwardKeys(m, ks \ {k}, o, size)

\* get_overlap_cells that finds no cell.
get_overlap_cells_none(m, o, size) == [out |-> {}, map |-> m]

\* get_overlap_cells: [out, map], the cells found and the map afterwards.
get_overlap_cells(m, o, size) ==
  LET c0 == get_cell(m, o, size)
      added == is_null(c0)
      c == IF added THEN [o |-> o, s |-> size, v |-> NoVar] ELSE c0
      m1 == IF added THEN insert_cell(m, c) ELSE m
      back == BackwardWalk(m1, {k \in Keys(m1) : k <= o}, o, size, c)
      fk == ForwardKeys(m1, {k \in Keys(m1) : k > o}, o, size)
      fwd == {y \in m1 : y.o \in fk /\ overlap(y, o, size)}
      \* the third loop runs from ++lb_it to the position where the
      \* second loop stopped
      rest == {y \in m1 : y.o \in fk /\ ~CellEq(y, c) /\ overlap(y, o, size)}
  IN [out |-> back \cup fwd \cup rest,
      map |-> IF added THEN remove_cell(m1, c) ELSE m1]

\* offset_map::operator-= (vector of cells)
RemoveCells(m, cells) == {y \in m : \A c \in cells : ~CellEq(y, c)}

\* A variant of get_index that numbers the triples of each array apart.
get_index_per_array(imap, a, o, size) ==
  IF <<a, o, size>> \in DOMAIN imap
  THEN [index |-> imap[<<a, o, size>>], index_map |-> imap]
  ELSE LET res == Cardinality({t \in DOMAIN imap : t[1] = a})
       IN [index |-> res,
           index_map |-> [t \in DOMAIN imap \cup {<<a, o, size>>} |->
                            IF t = <<a, o, size>> THEN res ELSE imap[t]]]

\* offset_map::get_index on the process-wide _index_map.
\* Returns [index, index_map].
get_index(imap, a, o, size) ==
  IF <<a, o, size>> \in DOMAIN imap
  THEN [index |-> imap[<<a, o, size>>], index_map |-> imap]
  ELSE LET res == Cardinality(DOMAIN imap)
       IN [index |-> res,
           index_map |-> [t \in DOMAIN imap \cup {<<a, o, size>>} |->
                            IF t = <<a, o, size>> THEN res ELSE imap[t]]]

\* offset_map::mk_cell.  Returns [cell, map, index_map].
mk_cell(m, imap, a, o, size) ==
  LET c0 == get_cell(m, o, size)
  IN IF is_null(c0)
     THEN LET gi == get_index(imap, a, o, size)
              c == [o |-> o, s |-> size, v |-> Scalar(gi.index)]
          IN [cell |-> c, map |-> insert_cell(m, c), index_map |-> gi.index_map]
     ELSE [cell |-> c0, map |-> m, index_map |-> imap]

\* offset_map::operator| (join_op: set union bucket by bucket; a cell that
\* is in both keeps the one of the left operand).
OffsetMapJoin(m1, m2) == m1 \cup {c \in m2 : \A y \in m1 : ~CellEq(y, c)}

\* separate_domain::operator| on _array_map: an array bound on one side
\* only is unbound in the join.
ArrayMapJoin(am1, am2) ==
  [a \in Arrays |-> IF am1[a] = {} \/ am2[a] = {} THEN {}
                    ELSE OffsetMapJoin(am1[a], am2[a])]

----------------------------------------------------------------------------
(* array_expansion_domain.  A value of the domain together with the        *)
(* process-wide index map is the record [array_map, inv, index_map].       *)

is_bottom(st) == NumIsBottom(st.inv)
is_top(st) == NumIsTop(st.inv)

RECURSIVE ForgetAll(_, _)
ForgetAll(d, vs) ==
  IF vs = {} THEN d
  ELSE LET v == CHOOSE w \in vs : TRUE
       IN ForgetAll(NumForget(d, v), vs \ {v})

\* A variant of array_store that does not kill the overlapping cells.
array_store_keep_overlaps(st, a, elem_size, i, val) ==
  IF is_bottom(st) THEN st
  ELSE LET ii == to_interval(st.inv, i)
           i_elem_size == to_interval(st.inv, elem_size)
       IN IF IsSingleton(ii) /\ IsSingleton(i_elem_size)
          THEN LET mk == mk_cell(st.array_map[a], st.index_map, a,
                                 SingletonOf(ii), SingletonOf(i_elem_size))
               IN [array_map |-> [st.array_map EXCEPT ![a] = mk.map],
                   inv |-> NumAssign(st.inv, mk.cell.v, val),
                   index_map |-> mk.index_map]
          ELSE st

array_store(st, a, elem_size, i, val) ==
  IF is_bottom(st) THEN st
  ELSE LET ii == to_interval(st.inv, i)
       IN IF IsSingleton(ii)
          THEN LET o == SingletonOf(ii)
                   i_elem_size == to_interval(st.inv, elem_size)
               IN IF ~IsSingleton(i_elem_size) THEN st
                  ELSE LET size == SingletonOf(i_elem_size)
                           q == get_overlap_cells(st.array_map[a], o, size)
                           \* kill overlapping cells
                           inv1 == ForgetAll(st.inv, {c.v : c \in q.out})
                           om1 == RemoveCells(q.map, q.out)
                           mk == mk_cell(om1, st.index_map, a, o, size)
                       IN [array_map |-> [st.array_map EXCEPT ![a] = mk.map],
                           \* strong update
                           inv |-> NumAssign(inv1, mk.cell.v, val),
                           index_map |-> mk.index_map]
          ELSE st

array_load(st, lhs, a, elem_size, i) ==
  IF is_bottom(st) \/ is_top(st) THEN st
  ELSE LET ii == to_interval(st.inv, i)
       IN IF IsSingleton(ii)
          THEN LET o == SingletonOf(ii)
                   i_elem_size == to_interval(st.inv, elem_size)
               IN IF ~IsSingleton(i_elem_size) THEN st
                  ELSE LET size == SingletonOf(i_elem_size)
                           q == get_overlap_cells(st.array_map[a], o, size)
                       IN IF q.out # {}
                          THEN [st EXCEPT !.inv = NumForget(st.inv, lhs)]
                          ELSE LET mk == mk_cell(q.map, st.index_map, a, o, size)
                               IN [array_map |->
                                     [st.array_map EXCEPT ![a] = mk.map],
                                   inv |-> NumAssign(st.inv, lhs, Var(mk.cell.v)),
                                   index_map |-> mk.index_map]
          ELSE [st EXCEPT !.inv = NumForget(st.inv, lhs)]

\* The loop of array_init: for (i = lb; i < e; i = i + n) array_store(...)
RECURSIVE InitLoop(_, _, _, _, _, _, _)
InitLoop(st, a, elem_size, i, e, step, val) ==
  IF i < e
  THEN InitLoop(array_store(st, a, elem_size, Const(i), val),
                a, elem_size, i + step, e, step, val)
  ELSE st

\* A variant of array_init without the test (ub - lb) mod n = 0.
array_init_unchecked(st, a, elem_size, lb_idx, ub_idx, val) ==
  IF is_bottom(st) \/ is_top(st) THEN st
  ELSE LET lb_i == to_interval(st.inv, lb_idx)
           ub_i == to_interval(st.inv, ub_idx)
           n_i == to_interval(st.inv, elem_size)
       IN IF ~IsSingleton(lb_i) \/ ~IsSingleton(ub_i) \/ ~IsSingleton(n_i)
          THEN st
          ELSE IF SingletonOf(ub_i) - SingletonOf(lb_i) > max_num_elems THEN st
          ELSE InitLoop(st, a, elem_size, SingletonOf(lb_i), SingletonOf(ub_i),
                        SingletonOf(n_i), val)

array_init(st, a, elem_size, lb_idx, ub_idx, val) ==
  IF is_bottom(st) \/ is_top(st) THEN st
  ELSE LET lb_i == to_interval(st.inv, lb_idx)
           ub_i == to_interval(st.inv, ub_idx)
           n_i == to_interval(st.inv, elem_size)
       IN IF ~IsSingleton(lb_i) THEN st
          ELSE IF ~IsSingleton(ub_i) THEN st
          ELSE IF ~IsSingleton(n_i) THEN st
          ELSE IF (SingletonOf(ub_i) - SingletonOf(lb_i)) % SingletonOf(n_i) # 0
               THEN st
          ELSE IF SingletonOf(ub_i) - SingletonOf(lb_i) > max_num_elems THEN st
          ELSE InitLoop(st, a, elem_size, SingletonOf(lb_i), SingletonOf(ub_i),
                        SingletonOf(n_i), val)

\* array_expansion_domain::operator| ; the index map is not part of a value.
ArrayJoin(st, other) ==
  [array_map |-> ArrayMapJoin(st.array_map, other.array_map),
   inv |-> NumJoin(st.inv, other.inv),
   index_map |-> st.index_map]

----------------------------------------------------------------------------
(* The array expansion domain as a state machine.  array_map, inv and      *)
(* index_map are the current value and the process-wide index map; saved   *)
(* is a copy of an earlier value (the copy constructor), joined back by    *)
(* operator|.  last records the most recent operation: its name, its      *)
(* arguments, their values in its pre-state, and the pre-state.            *)

\* Arguments offered to the operations.
Indexes == {Const(0), Const(1), Const(2), Var(n)}
ElemSizes == {Const(1), Const(2), Var(n)}
Values == {Const(7), Var(x)}
\* <<elem_size, lb_idx, ub_idx>> of array_init
InitArgs == {<<Const(1), Const(0), Const(2)>>,
             <<Const(2), Const(0), Const(4)>>,
             <<Const(2), Const(0), Const(3)>>,
             <<Const(1), Const(0), Const(max_num_elems + 1)>>,
             <<Var(n), Const(0), Const(2)>>,
             <<Const(1), Var(n), Const(2)>>,
             <<Const(1), Const(0), Var(n)>>}
AssignArgs == {<<x, 7>>, <<x, 0>>, <<n, 1>>}
\* Arguments offered in the runs with copies and joins.
JoinArrays == {"a"}
JoinIndexes == {Const(0), Const(1), Const(2)}
JoinElemSizes == {Const(1), Const(3)}
JoinValues == {Const(7)}

Cur == [array_map |-> array_map, inv |-> inv, index_map |-> index_map]

\* The record of an operation applied to the current value.
Rec(op, a, lhs, i, es, ub, val) ==
  [op |-> op, a |-> a, lhs |-> lhs, i |-> i, es |-> es, ub |-> ub, val |-> val,
   ii |-> to_interval(inv, i), ies |-> to_interval(inv, es),
   iub |-> to_interval(inv, ub), ival |-> to_interval(inv, val),
   pre |-> Cur]

Step(st, rec) ==
  /\ nops > 0
  /\ nops' = nops - 1
  /\ array_map' = st.array_map
  /\ inv' = st.inv
  /\ index_map' = st.index_map
  /\ last' = rec
  /\ UNCHANGED <<heap, self, alias, vfac>>

InitValue ==
  /\ array_map = [a \in Arrays |-> {}]
  /\ inv = NumTop
  /\ index_map = [t \in {} |-> 0]
  /\ saved = [array_map |-> [a \in Arrays |-> {}], inv |-> NumTop]
  /\ last = Rec("none", "a", NoVar, Const(0), Const(0), Const(0), Const(0))
  /\ heap = [r \in {} |-> 0] /\ self = 0 /\ alias = 0 /\ vfac = 0

InitAE == InitValue /\ nops = MaxOps

InitAEJoin == InitValue /\ nops = MaxJoinOps

ArrayStore(a, es, i, val) ==
  /\ Step(array_store(Cur, a, es, i, val),
          Rec("store", a, NoVar, i, es, Const(0), val))
  /\ UNCHANGED saved

ArrayLoad(lhs, a, es, i) ==
  /\ Step(array_load(Cur, lhs, a, es, i),
          Rec("load", a, lhs, i, es, Const(0), Const(0)))
  /\ UNCHANGED saved

ArrayInit(a, es, lb, ub, val) ==
  /\ Step(array_init(Cur, a, es, lb, ub, val),
          Rec("init", a, NoVar, lb, es, ub, val))
  /\ UNCHANGED saved

\* array_expansion_domain::assign(v, e) with a constant e
Assign(v, k) ==
  /\ Step([Cur EXCEPT !.inv = NumAssign(inv, v, Const(k))],
          Rec("assign", "a", v, Const(0), Const(0), Const(0), Const(k)))
  /\ UNCHANGED saved

\* array_expansion_domain::operator+= with the constraint v <= k
Assume(v, k) ==
  /\ Step([Cur EXCEPT !.inv = NumAssumeLeq(inv, v, k)],
          Rec("assume", "a", v, Const(0), Const(0), Const(0), Const(k)))
  /\ UNCHANGED saved

\* the copy constructor
Copy ==
  /\ Step(Cur, Rec("copy", "a", NoVar, Const(0), Const(0), Const(0), Const(0)))
  /\ saved' = [array_map |-> array_map, inv |-> inv]

\* operator|=
Join ==
  /\ Step(ArrayJoin(Cur, saved),
          Rec("join", "a", NoVar, Const(0), Const(0), Const(0), Const(0)))
  /\ UNCHANGED saved

NextAE ==
  \/ \E a \in Arrays, es \in ElemSizes, i \in Indexes, val \in Values :
       ArrayStore(a, es, i, val)
  \/ \E a \in Arrays, es \in ElemSizes, i \in Indexes : ArrayLoad(x, a, es, i)
  \/ \E a \in Arrays, args \in InitArgs, val \in Values :
       ArrayInit(a, args[1], args[2], args[3], val)
  \/ \E args \in AssignArgs : Assign(args[1], args[2])
  \/ Assume(x, 0)

SpecAE == InitAE /\ [][NextAE]_vars

NextAEJoin ==
  \/ \E a \in JoinArrays, es \in JoinElemSizes, i \in JoinIndexes,
        val \in JoinValues : ArrayStore(a, es, i, val)
  \/ \E a \in JoinArrays, es \in JoinElemSizes, i \in JoinIndexes :
       ArrayLoad(x, a, es, i)
  \/ Copy
  \/ Join

SpecAEJoin == InitAEJoin /\ [][NextAEJoin]_vars

----------------------------------------------------------------------------
(* Properties of the array expansion domain.                               *)

\* The byte ranges [o1, o1 + s1 - 1] and [o2, o2 + s2 - 1] intersect.
Intersects(o1, s1, o2, s2) == o1 <= o2 + s2 - 1 /\ o2 <= o1 + s1 - 1

\* The interval of lhs after array_load(lhs, a, es, i) on the value st.
LoadValue(st, lhs, a, es, i) == NumGet(array_load(st, lhs, a, es, i).inv, lhs)

LastOffset == SingletonOf(last.ii)
LastSize == SingletonOf(last.ies)

\* The last operation was an array_store on a non-bottom value with
\* singleton index and element size.
StoreDone ==
  /\ last.op = "store"
  /\ ~last.pre.inv.is_bottom
  /\ IsSingleton(last.ii) /\ IsSingleton(last.ies)

\* The last operation was an array_init on a non-bottom value with constant
\* lb < ub, constant es >= 1, (ub - lb) mod es = 0 and ub - lb <= 512.
InitDone ==
  /\ last.op = "init"
  /\ ~last.pre.inv.is_bottom
  /\ IsSingleton(last.ii) /\ IsSingleton(last.ies) /\ IsSingleton(last.iub)
  /\ SingletonOf(last.ii) < SingletonOf(last.iub)
  /\ LastSize >= 1
  /\ (SingletonOf(last.iub) - SingletonOf(last.ii)) % LastSize = 0
  /\ SingletonOf(last.iub) - SingletonOf(last.ii) <= 512

InitOffsets ==
  {k \in SingletonOf(last.ii) .. SingletonOf(last.iub) - 1 :
     (k - SingletonOf(last.ii)) % LastSize = 0}

\* C1: in the array expansion domain, after array_store(a, es, i, v, _) on a
\* non-bottom value with singleton i and es, an immediately following
\* array_load(lhs, a, es, i) leaves lhs equal to the stored value v.
C1_LoadAfterStore ==
  StoreDone =>
    \A lhs \in ProgVars :
      LoadValue(Cur, lhs, last.a, last.es, last.i) = last.ival

\* A load has read back the value 7 that a store had put in the cell.
C1_Witness ==
  /\ last.op = "load"
  /\ IsSingleton(last.ii) /\ IsSingleton(last.ies)
  /\ \E c \in last.pre.array_map[last.a] :
       /\ c.o = LastOffset /\ c.s = LastSize
       /\ NumGet(last.pre.inv, c.v) = ConstI(7)
  /\ NumGet(inv, last.lhs) = ConstI(7)

\* C2: array_init(a, es, lb, ub, val) with constant lb < ub, constant
\* es >= 1, (ub - lb) mod es = 0 and ub - lb <= 512 on any non-bottom value
\* stores val at each of the offsets lb, lb + es, ..., ub - es: the cell is in
\* the offset map of a and an array_load at that offset yields val.
C2_InitStoresEverywhere ==
  InitDone =>
    \A k \in InitOffsets :
      /\ \E c \in array_map[last.a] : c.o = k /\ c.s = LastSize
      /\ \A lhs \in ProgVars :
           LoadValue(Cur, lhs, last.a, last.es, Const(k)) = last.ival

\* The same statement for the values that are neither bottom nor top.
C2_InitStoresWhenNotTop ==
  (InitDone /\ ~is_top(last.pre)) =>
    \A k \in InitOffsets :
      /\ \E c \in array_map[last.a] : c.o = k /\ c.s = LastSize
      /\ \A lhs \in ProgVars :
           LoadValue(Cur, lhs, last.a, last.es, Const(k)) = last.ival

\* array_init was applied with valid arguments to the top value.
C2_Witness == InitDone /\ is_top(last.pre) /\ last.ival = ConstI(7)

\* C3: array_store with constant i and es removes from the offset map of a
\* every cell whose byte range intersects [i, i + es - 1], other than the
\* cell (i, es) itself, and forgets its scalar; an array_load that follows at
\* a region that overlaps the stored cell without being identical to it sets
\* lhs to top.
C3_StoreKillsOverlaps ==
  StoreDone =>
    /\ \A c \in last.pre.array_map[last.a] :
         (/\ Intersects(c.o, c.s, LastOffset, LastSize)
          /\ ~(c.o = LastOffset /\ c.s = LastSize))
         => /\ \A y \in array_map[last.a] : ~(y.o = c.o /\ y.s = c.s)
            /\ NumGet(inv, c.v) = TopI
    /\ \A o2 \in 0 .. 3, s2 \in 1 .. 3 :
         (/\ Intersects(o2, s2, LastOffset, LastSize)
          /\ ~(o2 = LastOffset /\ s2 = LastSize))
         => \A lhs \in ProgVars :
              LoadValue(Cur, lhs, last.a, Const(s2), Const(o2)) = TopI

\* A store was applied to an offset map with a cell that intersects the
\* target region.
C3_Witness ==
  /\ StoreDone
  /\ \E c \in last.pre.array_map[last.a] :
       /\ Intersects(c.o, c.s, LastOffset, LastSize)
       /\ ~(c.o = LastOffset /\ c.s = LastSize)

\* C4: array_store changes only the target cell (i, es) and the cells of a
\* that overlap it: every cell of a that does not intersect [i, i + es - 1]
\* and every cell of any other array stays in its offset map with the same
\* scalar, the scalar keeps its value, and a load from the cell yields the
\* same value as before the store.
C4_StoreFrame ==
  StoreDone =>
    \A b \in Arrays :
      \A c \in last.pre.array_map[b] :
        (b # last.a \/ ~Intersects(c.o, c.s, LastOffset, LastSize))
        => /\ c \in array_map[b]
           /\ NumGet(inv, c.v) = NumGet(last.pre.inv, c.v)
           /\ \A lhs \in ProgVars :
                LoadValue(Cur, lhs, b, Const(c.s), Const(c.o))
                  = LoadValue(last.pre, lhs, b, Const(c.s), Const(c.o))

\* A store was applied next to a cell of the same array and a cell of
\* another array, both holding 7.
C4_Witness ==
  /\ StoreDone
  /\ \E c \in last.pre.array_map[last.a] :
       /\ ~Intersects(c.o, c.s, LastOffset, LastSize)
       /\ NumGet(last.pre.inv, c.v) = ConstI(7)
  /\ \E b \in Arrays \ {last.a} :
       \E c \in last.pre.array_map[b] : NumGet(last.pre.inv, c.v) = ConstI(7)

\* The last operation was an array_load, on a value neither bottom nor top,
\* in one of the cases that lose precision.
LoadInexact ==
  /\ last.op = "load"
  /\ ~is_bottom(last.pre) /\ ~is_top(last.pre)
  /\ \/ ~IsSingleton(last.ii)
     \/ ~IsSingleton(last.ies)
     \/ /\ IsSingleton(last.ii) /\ IsSingleton(last.ies)
        /\ \E c \in last.pre.array_map[last.a] :
             /\ Intersects(c.o, c.s, LastOffset, LastSize)
             /\ ~(c.o = LastOffset /\ c.s = LastSize)

\* C5: array_load on a value that is neither bottom nor top assigns top to
\* lhs when the index is not a singleton, when the element size is not a
\* singleton, and when the target region overlaps an existing non-identical
\* cell.
C5_InexactLoadGivesTop == LoadInexact => NumGet(inv, last.lhs) = TopI

\* The same statement without the case of a singleton index with an
\* element size that is not a singleton.
C5_InexactLoadExceptSize ==
  (LoadInexact /\ (IsSingleton(last.ii) => IsSingleton(last.ies)))
    => NumGet(inv, last.lhs) = TopI

\* A load with singleton index and non-singleton element size was applied
\* to a value where lhs is 7.
C5_Witness ==
  /\ LoadInexact
  /\ IsSingleton(last.ii) /\ ~IsSingleton(last.ies)
  /\ NumGet(last.pre.inv, last.lhs) = ConstI(7)

StoreSkipped ==
  /\ last.op = "store"
  /\ ~IsSingleton(last.ii) \/ ~IsSingleton(last.ies)

InitSkipped ==
  /\ last.op = "init"
  /\ \/ ~IsSingleton(last.ii) \/ ~IsSingleton(last.iub) \/ ~IsSingleton(last.ies)
     \/ /\ IsSingleton(last.ii) /\ IsSingleton(last.iub) /\ IsSingleton(last.ies)
        /\ LastSize >= 1
        /\ \/ (SingletonOf(last.iub) - SingletonOf(last.ii)) % LastSize # 0
           \/ SingletonOf(last.iub) - SingletonOf(last.ii) > 512

\* C6: array_store with a non-singleton index or element size, and
\* array_init with a non-constant lb, ub or es, with (ub - lb) mod es # 0 or
\* with ub - lb > 512, leave the offset maps and the scalar domain unchanged.
C6_SkippedLeavesUnchanged ==
  (StoreSkipped \/ InitSkipped) =>
    /\ array_map = last.pre.array_map
    /\ inv = last.pre.inv

\* An array_init whose range is not a multiple of the element size was
\* applied to a value that is neither bottom nor top.
C6_Witness ==
  /\ InitSkipped
  /\ IsSingleton(last.ii) /\ IsSingleton(last.iub) /\ IsSingleton(last.ies)
  /\ (SingletonOf(last.iub) - SingletonOf(last.ii)) % LastSize # 0
  /\ ~is_bottom(last.pre) /\ ~is_top(last.pre)

\* C7: the process-wide index map gives each triple (array, offset, size)
\* one index that never changes afterwards, different triples never share
\* an index, and the scalar of every cell is the one of its triple.
C7_IndexMapStable ==
  /\ \A t1, t2 \in DOMAIN index_map :
       index_map[t1] = index_map[t2] => t1 = t2
  /\ \A t \in DOMAIN last.pre.index_map :
       t \in DOMAIN index_map /\ index_map[t] = last.pre.index_map[t]
  /\ \A a \in Arrays :
       \A c \in array_map[a] :
         /\ <<a, c.o, c.s>> \in DOMAIN index_map
         /\ c.v = Scalar(index_map[<<a, c.o, c.s>>])

\* A store materialized again a cell whose triple already had an index, in
\* an index map that holds several triples.
C7_Witness ==
  /\ StoreDone
  /\ <<last.a, LastOffset, LastSize>> \in DOMAIN last.pre.index_map
  /\ \A c \in last.pre.array_map[last.a] :
       ~(c.o = LastOffset /\ c.s = LastSize)
  /\ Cardinality(DOMAIN index_map) >= 2

----------------------------------------------------------------------------
(* The array smashing domain over the scalar domain of intervals.  An      *)
(* array is one summary variable of _inv.                                  *)

arrA == <<"arr", 0>>
arrB == <<"arr", 1>>
SmashArrays == {arrA, arrB}
\* The temporary a_prime of array_load (a.name().get_var_factory().get()).
a_prime == <<"tmp", 0>>
SmashVars == ProgVars \cup SmashArrays \cup {a_prime}

\* domain_traits<NumDomain>::expand
expand(d, v, new_x) == NumSet(d, new_x, NumGet(d, v))

\* strong_update for an array of integers
strong_update(d, a, rhs) == NumAssign(d, a, rhs)

\* A weak_update that does not join with the value before the update.
weak_update_no_join(d, a, rhs) == NumAssign(d, a, rhs)

\* weak_update for an array of integers
weak_update(d, a, rhs) ==
  LET other == NumAssign(d, a, rhs)
  IN NumJoin(d, other)

\* array_smashing::array_init
smashing_array_init(d, a, val) == NumAssign(d, a, val)

\* array_smashing::array_store
smashing_array_store(d, a, val, is_singleton) ==
  IF is_singleton THEN strong_update(d, a, val) ELSE weak_update(d, a, val)

\* array_smashing::array_load for an array of integers
smashing_array_load(d, lhs, a) ==
  LET d1 == expand(d, a, a_prime)
      d2 == NumAssign(d1, lhs, Var(a_prime))
  IN NumForget(d2, a_prime)

\* Arguments offered to the operations of the array smashing domain.
MaxSmashOps == 4
SmashValues == {Const(0), Const(5), Var(x)}
SmashAssignArgs == {<<x, 7>>, <<n, 1>>}

SmashRec(op, a, lhs, val, is_singleton) ==
  [op |-> op, a |-> a, lhs |-> lhs, val |-> val, is_singleton |-> is_singleton,
   ival |-> to_interval(inv, val), pre |-> inv]

SmashStep(d, rec) ==
  /\ nops > 0
  /\ nops' = nops - 1
  /\ inv' = d
  /\ last' = rec
  /\ UNCHANGED <<array_map, index_map, saved, heap, self, alias, vfac>>

\* array_smashing(): _inv is top.
InitSmash ==
  /\ array_map = [a \in Arrays |-> {}]
  /\ inv = NumTop
  /\ index_map = [t \in {} |-> 0]
  /\ saved = [array_map |-> [a \in Arrays |-> {}], inv |-> NumTop]
  /\ last = SmashRec("none", arrA, NoVar, Const(0), FALSE)
  /\ heap = [r \in {} |-> 0] /\ self = 0 /\ alias = 0 /\ vfac = 0
  /\ nops = MaxSmashOps

SmashInit(a, val) ==
  SmashStep(smashing_array_init(inv, a, val),
            SmashRec("init", a, NoVar, val, FALSE))

SmashStore(a, val, is_singleton) ==
  SmashStep(smashing_array_store(inv, a, val, is_singleton),
            SmashRec("store", a, NoVar, val, is_singleton))

SmashLoad(lhs, a) ==
  SmashStep(smashing_array_load(inv, lhs, a),
            SmashRec("load", a, lhs, Const(0), FALSE))

\* array_smashing::assign(v, e) with a constant e
SmashAssign(v, k) ==
  SmashStep(NumAssign(inv, v, Const(k)),
            SmashRec("assign", arrA, v, Const(k), FALSE))

\* array_smashing::operator+= with the unsatisfiable constraint 1 <= 0
SmashAssumeFalse ==
  SmashStep(NumBottom, SmashRec("assume", arrA, NoVar, Const(0), FALSE))

NextSmash ==
  \/ \E a \in SmashArrays, val \in SmashValues : SmashInit(a, val)
  \/ \E a \in SmashArrays, val \in SmashValues, s \in BOOLEAN :
       SmashStore(a, val, s)
  \/ \E a \in SmashArrays : SmashLoad(x, a)
  \/ \E args \in SmashAssignArgs : SmashAssign(args[1], args[2])
  \/ SmashAssumeFalse

SpecSmash == InitSmash /\ [][NextSmash]_vars

----------------------------------------------------------------------------
(* Properties of the array smashing domain.                                *)

\* The interval of the stored value in the value before the store: no value
\* at all when that value is bottom.
StoredValue == IF last.pre.is_bottom THEN BotI ELSE last.ival

----------------------------------------------------------------------------
(* The weighted graph of the split octagon domain (graph_t, AdaptGraph).   *)
(* Vertices are the ids 0 .. size - 1; free is the stack of freed ids; E    *)
(* maps the edge <<s, d>> to its weight.  An edge s -> d of weight w reads  *)
(* val(d) - val(s) <= w.                                                    *)

Min(a, b) == IF a <= b THEN a ELSE b
Size(f) == Cardinality(DOMAIN f)
PushBack(f, e) == [i \in 0 .. Size(f) |-> IF i \in DOMAIN f THEN f[i] ELSE e]
NoEdges == [e \in {} |-> 0]
EmptyVec == [i \in {} |-> 0]

GraphEmpty == [size |-> 0, free |-> <<>>, E |-> NoEdges]

is_free(g, v) == \E i \in 1 .. Len(g.free) : g.free[i] = v

\* new_vertex: the id freed last, or the next id.
new_vertex(g) ==
  IF Len(g.free) > 0
  THEN [v |-> g.free[Len(g.free)],
        g |-> [g EXCEPT !.free = SubSeq(g.free, 1, Len(g.free) - 1)]]
  ELSE [v |-> g.size, g |-> [g EXCEPT !.size = g.size + 1]]

\* forget(v): remove the edges of v and free its id.
graph_forget(g, v) ==
  IF is_free(g, v) \/ v >= g.size THEN g
  ELSE [g EXCEPT !.E = [e \in {f \in DOMAIN g.E : f[1] # v /\ f[2] # v}
                          |-> g.E[e]],
                 !.free = Append(g.free, v)]

elem(g, s, d) == <<s, d>> \in DOMAIN g.E
edge_val(g, s, d) == g.E[<<s, d>>]

set_edge(g, s, w, d) ==
  [g EXCEPT !.E = [e \in DOMAIN g.E \cup {<<s, d>>} |->
                     IF e = <<s, d>> THEN w ELSE g.E[e]]]

\* add_edge is called for an edge that is not in the graph; on an edge that
\* is, the weight found by later lookups is the new one.
add_edge(g, s, w, d) == set_edge(g, s, w, d)

\* update_edge with the combiner min.
update_edge(g, s, w, d) ==
  IF elem(g, s, d) THEN set_edge(g, s, Min(edge_val(g, s, d), w), d)
  ELSE set_edge(g, s, w, d)

verts(g) == {v \in 0 .. g.size - 1 : ~is_free(g, v)}
succs(g, v) == {d \in 0 .. g.size : elem(g, v, d)}
preds(g, v) == {u \in 0 .. g.size : elem(g, u, v)}
graph_is_empty(g) == DOMAIN g.E = {}

\* SplitGraph: the graph without the edges between the two vertices of one
\* variable.
SplitGraph(g) ==
  [g EXCEPT !.E = [e \in {f \in DOMAIN g.E : f[1] \div 2 # f[2] \div 2}
                     |-> g.E[e]]]

\* One round of relaxation of the potentials along the edges.
RelaxOnce(g, pot) ==
  [v \in DOMAIN pot |->
     LET ins == {pot[u] + edge_val(g, u, v) :
                   u \in {t \in DOMAIN pot : elem(g, t, v)}}
         lower == {c \in ins : c < pot[v]}
     IN IF lower = {} THEN pot[v]
        ELSE CHOOSE c \in lower : \A c2 \in lower : c <= c2]

RECURSIVE Relax(_, _, _)
Relax(g, pot, k) ==
  LET next == RelaxOnce(g, pot)
  IN IF next = pot THEN [ok |-> TRUE, potential |-> pot]
     ELSE IF k = 0 THEN [ok |-> FALSE, potential |-> pot]
     ELSE Relax(g, next, k - 1)

\* GrOps::repair_potential after the edge src -> dest was written: nothing
\* to do when the edge respects the potentials, otherwise relaxation, which
\* fails on a negative cycle.
repair_potential(g, pot, src, dest) ==
  IF ~elem(g, src, dest) \/ src \notin DOMAIN pot \/ dest \notin DOMAIN pot
  THEN [ok |-> TRUE, potential |-> pot]
  ELSE IF pot[src] + edge_val(g, src, dest) >= pot[dest]
  THEN [ok |-> TRUE, potential |-> pot]
  ELSE Relax(g, pot, Size(pot))

\* The weights of the shortest paths of at most k more edges from the
\* vertices of dist, forwards (fwd) or backwards.
RECURSIVE Paths(_, _, _, _)
Paths(g, dist, fwd, k) ==
  IF k = 0 THEN dist
  ELSE
    LET W(u, t) == IF fwd THEN g.E[<<u, t>>] ELSE g.E[<<t, u>>]
        Adj(u, t) == IF fwd THEN elem(g, u, t) ELSE elem(g, t, u)
        reach == DOMAIN dist \cup
                 {t \in 0 .. g.size : \E u \in DOMAIN dist : Adj(u, t)}
        Cands(t) == (IF t \in DOMAIN dist THEN {dist[t]} ELSE {}) \cup
                    {dist[u] + W(u, t) : u \in {y \in DOMAIN dist : Adj(y, t)}}
        next == [t \in reach |->
                   CHOOSE c \in Cands(t) : \A c2 \in Cands(t) : c <= c2]
    IN IF next = dist THEN dist ELSE Paths(g, next, fwd, k - 1)

\* GrOps::close_after_assign: the edges from v and to v given by the
\* shortest paths through the graph, where they improve on the graph.
close_after_assign(g, v) ==
  LET from == Paths(g, [t \in {v} |-> 0], TRUE, g.size)
      to == Paths(g, [t \in {v} |-> 0], FALSE, g.size)
      out == {d \in DOMAIN from \ {v} :
                ~elem(g, v, d) \/ from[d] < edge_val(g, v, d)}
      inn == {u \in DOMAIN to \ {v} :
                ~elem(g, u, v) \/ to[u] < edge_val(g, u, v)}
  IN [e \in {<<v, d>> : d \in out} \cup {<<u, v>> : u \in inn} |->
        IF e[1] = v THEN from[e[2]] ELSE to[e[1]]]

\* GrOps::close_after_widen: the edges from the unstable vertices given by
\* the shortest paths, where they improve on the graph.
close_after_widen(g, unstable) ==
  LET From(u) == Paths(g, [t \in {u} |-> 0], TRUE, g.size)
      new == {e \in unstable \X (0 .. g.size) :
                /\ e[1] # e[2]
                /\ e[2] \in DOMAIN From(e[1])
                /\ ~elem(g, e[1], e[2])
                   \/ From(e[1])[e[2]] < edge_val(g, e[1], e[2])}
  IN [e \in new |-> From(e[1])[e[2]]]

\* GrOps::apply_delta: every edge of delta, combined by min with the edge
\* of the graph.
apply_delta(g, delta) ==
  [g EXCEPT !.E = [e \in DOMAIN g.E \cup DOMAIN delta |->
                     IF e \notin DOMAIN delta THEN g.E[e]
                     ELSE IF e \in DOMAIN g.E THEN Min(g.E[e], delta[e])
                     ELSE delta[e]]]

Max(a, b) == IF a >= b THEN a ELSE b

\* GraphPerm(perm, g): the vertex i of the view is the vertex perm[i] of g;
\* a vertex with perm[i] = -1 has no edges.
GrPerm(perm, g) ==
  [size |-> Size(perm), free |-> <<>>,
   E |-> [e \in {f \in (DOMAIN perm) \X (DOMAIN perm) :
                   /\ perm[f[1]] # -1
                   /\ perm[f[2]] # -1
                   /\ elem(g, perm[f[1]], perm[f[2]])} |->
            edge_val(g, perm[e[1]], perm[e[2]])]]

\* GrOps::meet: the union of the vertices and of the edges, with the smaller
\* weight on an edge of both graphs.  The result is taken as not closed.
graph_meet(l, r) ==
  [size |-> Max(l.size, r.size), free |-> <<>>,
   E |-> [e \in DOMAIN l.E \cup DOMAIN r.E |->
            IF e \notin DOMAIN r.E THEN l.E[e]
            ELSE IF e \notin DOMAIN l.E THEN r.E[e]
            ELSE Min(l.E[e], r.E[e])]]

\* GrOps::join: the edges of both graphs, with the larger weight.
graph_join(l, r) ==
  [size |-> Min(l.size, r.size), free |-> <<>>,
   E |-> [e \in DOMAIN l.E \cap DOMAIN r.E |-> Max(l.E[e], r.E[e])]]

\* GrOps::widen, the edges: an edge of l is kept when r has the edge with a
\* weight that is not larger.
WidenKept(l, r) == {e \in DOMAIN l.E : e \in DOMAIN r.E /\ r.E[e] <= l.E[e]}

\* GrOps::widen: the graph of the kept edges, and the vertices that lost an
\* edge, which are destabilized.
graph_widen(l, r) ==
  [g |-> [size |-> l.size, free |-> <<>>,
          E |-> [e \in WidenKept(l, r) |-> l.E[e]]],
   destabilized |-> {e[1] : e \in DOMAIN l.E \ WidenKept(l, r)}]

\* GrOps::close_after_meet: the edges given by the shortest paths between
\* all vertices, where they improve on the graph.
close_after_meet(g) == close_after_widen(g, 0 .. g.size - 1)

\* GrOps::select_potentials: potentials for the graph by relaxation from
\* the given ones; fails on a negative cycle.
select_potentials(g, pot) == Relax(g, pot, Size(pot))

----------------------------------------------------------------------------
(* The split octagon domain SplitOCT_.  A value is the record of its       *)
(* fields: vert_map maps a variable to the pair <<pos, neg>> of its         *)
(* vertices, rev_map maps a vertex to its variable (NoVar for none),        *)
(* potential maps a vertex to its potential.  The operations take the      *)
(* vertices of the variable x to be v = get_vert(x) and v + 1.              *)

y == <<"p", 2>>

\* SplitOCT_(false) and SplitOCT_(true)
OctTop == [is_bottom |-> FALSE, vert_map |-> EmptyEnv, rev_map |-> EmptyVec,
           graph |-> GraphEmpty, potential |-> EmptyVec, unstable |-> {}]
OctBottom == [OctTop EXCEPT !.is_bottom = TRUE]

set_to_bottom(o) == OctBottom

oct_is_bottom(o) == o.is_bottom
oct_is_top(o) == IF o.is_bottom THEN FALSE ELSE graph_is_empty(o.graph)

\* Division of integers, rounding towards zero.
TDiv(a, b) == IF a >= 0 THEN a \div b ELSE -((-a) \div b)

\* interval_t(lb, ub): bottom when lb > ub.
MkI(lb, ub) == IF BLe(lb, ub) THEN [lb |-> lb, ub |-> ub] ELSE BotI

\* The pair <<vert_pos, vert_neg>> with the smaller id first.
vert_pair_ordered(a, b) == IF a > b THEN <<b, a>> ELSE <<a, b>>

\* get_vert, the pair <<vert_pos, vert_neg>> made of the ids a and b taken
\* from the graph in this order.  When a is the larger one, vert_pos becomes
\* b and vert_neg becomes vert_pos.
vert_pair(a, b) == IF a > b THEN <<b, b>> ELSE <<a, b>>

\* get_vert, the vertex p entered for v in rev_map and potential.
EnterVert(o, p, v) ==
  IF p < Size(o.rev_map)
  THEN [o EXCEPT !.potential = [o.potential EXCEPT ![p] = 0],
                 !.rev_map = [o.rev_map EXCEPT ![p] = v]]
  ELSE [o EXCEPT !.potential = PushBack(o.potential, 0),
                 !.rev_map = PushBack(o.rev_map, v)]

\* get_vert, the new pair pr of vertices of v entered in the maps; g is the
\* graph the ids were taken from.
NewVerts(o, v, pr, g) ==
  [vert |-> pr[1],
   o |-> [EnterVert(EnterVert(o, pr[1], v), pr[2], v) EXCEPT
            !.graph = g,
            !.vert_map = [u \in DOMAIN o.vert_map \cup {v} |->
                            IF u = v THEN pr ELSE o.vert_map[u]]]]

\* get_vert, after the first new_vertex
SecondVert(o, v, a, n2) == NewVerts(o, v, vert_pair(a, n2.v), n2.g)
FirstVert(o, v, n1) == SecondVert(o, v, n1.v, new_vertex(n1.g))

\* get_vert: the vertex of v, after creating its two vertices when it has
\* none.
get_vert(o, v) ==
  IF v \in DOMAIN o.vert_map THEN [vert |-> o.vert_map[v][1], o |-> o]
  ELSE FirstVert(o, v, new_vertex(o.graph))

\* get_interval(x)
get_interval(o, v) ==
  IF v \notin DOMAIN o.vert_map THEN TopI
  ELSE LET p == o.vert_map[v][1]
       IN MkI(IF elem(o.graph, p, p + 1)
              THEN Fin(TDiv(-edge_val(o.graph, p, p + 1), 2)) ELSE MInf,
              IF elem(o.graph, p + 1, p)
              THEN Fin(TDiv(edge_val(o.graph, p + 1, p), 2)) ELSE PInf)

\* operator[]
oct_get(o, v) == IF o.is_bottom THEN BotI ELSE get_interval(o, v)

\* The vertex on the other side of a vertex: neg(2k) = 2k + 1.
comp(v) == IF v % 2 = 0 THEN v + 1 ELSE v - 1

\* normalize, the mirror edge ms -> md added in g1: bottom when the
\* potentials cannot be repaired.
AddMirror(o, g1, r) ==
  IF r.ok THEN [o EXCEPT !.graph = g1, !.potential = r.potential]
  ELSE set_to_bottom(o)

\* normalize, the step for the edge v -> w: the mirror edge
\* comp(w) -> comp(v) takes the smaller weight, or is added.
NormalizeMirror(o, v, w, ms, md, g1) ==
  IF elem(o.graph, ms, md)
  THEN [o EXCEPT !.graph =
          update_edge(update_edge(o.graph, ms,
                                  Min(edge_val(o.graph, ms, md),
                                      edge_val(o.graph, v, w)), md),
                      v, Min(edge_val(o.graph, ms, md),
                             edge_val(o.graph, v, w)), w)]
  ELSE AddMirror(o, g1, repair_potential(g1, o.potential, ms, md))

NormalizeEdge(o, v, w) ==
  NormalizeMirror(o, v, w, comp(w), comp(v),
                  add_edge(o.graph, comp(w), edge_val(o.graph, v, w), comp(v)))

\* normalize, the edges from v to the vertices of ws in increasing order.
RECURSIVE NormalizeSuccs(_, _, _)
NormalizeSuccs(o, v, ws) ==
  IF ws = {} \/ o.is_bottom THEN o
  ELSE LET w == SetMin(ws)
       IN NormalizeSuccs(IF v \div 2 = w \div 2 \/ ~elem(o.graph, v, w) THEN o
                         ELSE NormalizeEdge(o, v, w),
                         v, ws \ {w})

RECURSIVE NormalizeVerts(_, _)
NormalizeVerts(o, vs) ==
  IF vs = {} \/ o.is_bottom THEN o
  ELSE LET v == SetMin(vs)
       IN NormalizeVerts(NormalizeSuccs(o, v, succs(o.graph, v)), vs \ {v})

\* normalize, the closure for the unstable vertices
NormalizeUnstable(o) ==
  IF o.unstable = {} THEN o
  ELSE [o EXCEPT !.graph = apply_delta(o.graph,
                                       close_after_widen(SplitGraph(o.graph),
                                                         o.unstable)),
                 !.unstable = {}]

\* normalize without the loop over the edges
normalize_unstable_only(o) == NormalizeUnstable(o)

\* normalize
normalize(o) == NormalizeUnstable(NormalizeVerts(o, verts(o.graph)))

\* operator-=, on the normalized value
ForgetVerts(o, v, p) ==
  [o EXCEPT !.graph = graph_forget(graph_forget(o.graph, p[1]), p[2]),
            !.rev_map = [[o.rev_map EXCEPT ![p[1]] = NoVar]
                           EXCEPT ![p[2]] = NoVar],
            !.vert_map = [u \in DOMAIN o.vert_map \ {v} |-> o.vert_map[u]]]

ForgetNormalized(o, v) ==
  IF v \notin DOMAIN o.vert_map THEN o ELSE ForgetVerts(o, v, o.vert_map[v])

\* operator-=
oct_forget(o, v) ==
  IF o.is_bottom THEN o ELSE ForgetNormalized(normalize(o), v)

\* set(x, intv), the edge of the upper bound and the edge of the lower bound
\* at the vertex p.
SetUb(o, p, ub) ==
  IF ub[1] # 0 THEN o
  ELSE [o EXCEPT !.potential = [[o.potential EXCEPT ![p] = ub[2]]
                                  EXCEPT ![p + 1] = -ub[2]],
                 !.graph = set_edge(o.graph, p + 1, 2 * ub[2], p)]

SetLb(o, p, lb) ==
  IF lb[1] # 0 THEN o
  ELSE [o EXCEPT !.potential = [[o.potential EXCEPT ![p] = lb[2]]
                                  EXCEPT ![p + 1] = -lb[2]],
                 !.graph = set_edge(o.graph, p, -2 * lb[2], p + 1)]

SetBounds(r, intv) == SetLb(SetUb(r.o, r.vert, intv.ub), r.vert, intv.lb)

\* set(x, intv), after *this -= x
SetForgotten(o, v, intv) ==
  IF IsTopI(intv) THEN o ELSE SetBounds(get_vert(o, v), intv)

\* set(x, intv)
oct_set(o, v, intv) ==
  IF o.is_bottom THEN o ELSE SetForgotten(oct_forget(o, v), v, intv)

\* pot_value and eval_expression
pot_value(o, v) ==
  IF v \in DOMAIN o.vert_map THEN o.potential[o.vert_map[v][1]] ELSE 0
eval_expression(o, e) ==
  IF e.v = NoVar THEN e.k ELSE e.k + pot_value(o, e.v)

\* eval_interval
eval_interval(o, e) ==
  IF e.v = NoVar THEN ConstI(e.k) ELSE AddI(ConstI(e.k), oct_get(o, e.v))

\* diffcsts_of_assign for the expression k + y: the pairs <<y, c>> of the
\* bounds x - y <= c (ub) and x - y >= c (lb).
diffcsts_of_assign(o, e) ==
  LET y_ub == oct_get(o, e.v).ub
      y_lb == oct_get(o, e.v).lb
      ub == IF y_ub[1] # 0 THEN {<<e.v, e.k>>}
            ELSE {<<e.v, (e.k + y_ub[2]) - y_ub[2]>>}
      lb == IF y_lb[1] # 0 THEN {<<e.v, e.k>>}
            ELSE {<<e.v, (e.k + y_lb[2]) - y_lb[2]>>}
  IN [lb |-> lb, ub |-> ub]

\* assign, the vertex p entered for v in rev_map and potential with the
\* potential val.
EnterAssignVert(o, p, v, val) ==
  IF p = Size(o.rev_map)
  THEN [o EXCEPT !.potential = PushBack(o.potential, val),
                 !.rev_map = PushBack(o.rev_map, v)]
  ELSE [o EXCEPT !.potential = [o.potential EXCEPT ![p] = val],
                 !.rev_map = [o.rev_map EXCEPT ![p] = v]]

\* assign, the new vertices v < w of the assigned variable; g is the graph
\* the ids were taken from.
NewAssignVerts(o, v, val, pr, g) ==
  [v |-> pr[1], w |-> pr[2],
   o |-> [EnterAssignVert(EnterAssignVert(o, pr[1], v, val), pr[2], v, -val)
            EXCEPT !.graph = g]]

SecondAssignVert(o, v, val, a, n2) ==
  NewAssignVerts(o, v, val, vert_pair_ordered(a, n2.v), n2.g)
FirstAssignVert(o, v, val, n1) ==
  SecondAssignVert(o, v, val, n1.v, new_vertex(n1.g))

\* The two vertices of assign, taken from the graph and entered in rev_map
\* and potential.
AssignVerts(o, v, e) ==
  FirstAssignVert(o, v, eval_expression(o, e), new_vertex(o.graph))

\* assign, the edges between the new vertex pv and the vertex py of y.
AssignDelta(pv, py, diffs) ==
  [d \in {<<pv, py>>, <<py, pv>>} |->
     IF d[1] = pv THEN -(CHOOSE p \in diffs.lb : TRUE)[2]
     ELSE (CHOOSE p \in diffs.ub : TRUE)[2]]

\* assign, the bounds of x_int written on the edges between pv and pw.
AssignUb(g, pv, pw, ub) ==
  IF ub[1] = 0 THEN update_edge(g, pw, 2 * ub[2], pv) ELSE g
AssignLb(g, pv, pw, lb) ==
  IF lb[1] = 0 THEN update_edge(g, pv, 2 * (-lb[2]), pw) ELSE g

\* assign, the closure of the edges of pv.
AssignClose(g, pv) == apply_delta(g, close_after_assign(SplitGraph(g), pv))

\* assign, the new vertices entered in vert_map after the old ones of v
\* were forgotten.
AssignEnter(o, v, pv, pw) ==
  [o EXCEPT !.vert_map = [u \in DOMAIN o.vert_map \cup {v} |->
                            IF u \in DOMAIN o.vert_map THEN o.vert_map[u]
                            ELSE <<pv, pw>>]]

\* assign, with the new vertices nv and the vertex gy of y.
AssignEdges(gy, nv, v, x_int, diffs) ==
  AssignEnter(
    oct_forget(
      [gy.o EXCEPT !.graph =
         AssignUb(AssignLb(AssignClose(apply_delta(gy.o.graph,
                                                   AssignDelta(nv.v, gy.vert,
                                                               diffs)),
                                       nv.v),
                           nv.v, nv.w, x_int.lb),
                  nv.v, nv.w, x_int.ub)],
      v),
    v, nv.v, nv.w)

AssignVar(nv, v, e, x_int, diffs) ==
  AssignEdges(get_vert(nv.o, e.v), nv, v, x_int, diffs)

\* assign(x, e), on the normalized value
AssignNormalized(o, v, e) ==
  IF e.v = NoVar THEN oct_set(o, v, ConstI(e.k))
  ELSE AssignVar(AssignVerts(o, v, e), v, e, eval_interval(o, e),
                 diffcsts_of_assign(o, e))

\* assign(x, e) with special_assign, for e = k or e = k + y
oct_assign(o, v, e) ==
  IF o.is_bottom THEN o ELSE AssignNormalized(normalize(o), v, e)

\* The edges of the graph g written over by the edges of delta.
AddEdges(g, delta) ==
  [g EXCEPT !.E = [e \in DOMAIN g.E \cup DOMAIN delta |->
                     IF e \in DOMAIN delta THEN delta[e] ELSE g.E[e]]]

\* expand(x, y), one loop over the edges into the vertex from: each is
\* added as an edge into the vertex to.
CopyPreds(g, from, to) ==
  AddEdges(g, [e \in {<<u, to>> : u \in preds(g, from)} |->
                 edge_val(g, e[1], from)])

\* expand(x, y), one loop over the edges out of the vertex from.
CopySuccs(g, from, to) ==
  AddEdges(g, [e \in {<<to, d>> : d \in succs(g, from)} |->
                 edge_val(g, from, e[2])])

\* expand(x, y), the four loops of add_edge, each over the edges of a vertex
\* of x as the loops before it left them, and the potentials of y.
ExpandVerts(o, ii, jj) ==
  [o EXCEPT !.graph = CopySuccs(CopyPreds(CopySuccs(CopyPreds(o.graph, ii, jj),
                                                    ii, jj),
                                          ii + 1, jj + 1),
                                ii + 1, jj + 1),
            !.potential = [[o.potential EXCEPT ![jj] = o.potential[ii]]
                             EXCEPT ![jj + 1] = o.potential[ii + 1]]]

\* expand(x, y), for y not in vert_map.
oct_expand(o, v, new_v) ==
  IF o.is_bottom THEN o
  ELSE LET r1 == get_vert(o, v)
           r2 == get_vert(r1.o, new_v)
       IN ExpandVerts(r2.o, r1.vert, r2.vert)

\* interval_t::operator* and operator/ with a constant, Shl with a constant
\* shift and UDiv with a constant divisor.
BScale(b, k) == IF b[1] = 0 THEN Fin(b[2] * k) ELSE b
MulI(i, k) ==
  IF IsBotI(i) THEN BotI
  ELSE IF k = 0 THEN ConstI(0)
  ELSE IF k > 0 THEN [lb |-> BScale(i.lb, k), ub |-> BScale(i.ub, k)]
  ELSE [lb |-> IF i.ub[1] = 0 THEN Fin(i.ub[2] * k) ELSE MInf,
        ub |-> IF i.lb[1] = 0 THEN Fin(i.lb[2] * k) ELSE PInf]
BQuot(b, k) == IF b[1] = 0 THEN Fin(TDiv(b[2], k)) ELSE b
DivI(i, k) ==
  IF IsBotI(i) \/ k = 0 THEN BotI
  ELSE IF k > 0 THEN [lb |-> BQuot(i.lb, k), ub |-> BQuot(i.ub, k)]
  ELSE TopI
ShlI(i, k) == IF IsBotI(i) THEN BotI ELSE IF k < 0 THEN TopI
              ELSE MulI(i, 2 ^ k)
UDivI(i, k) ==
  IF IsBotI(i) THEN BotI
  ELSE IF IsSingleton(i) /\ SingletonOf(i) >= 0 /\ k > 0
  THEN ConstI(SingletonOf(i) \div k)
  ELSE TopI

\* apply(operation_t op, x, y, k), on the normalized value
ApplyNormalized(o, op, v, u, k) ==
  CASE op = "OP_ADDITION" -> oct_assign(o, v, [k |-> k, v |-> u])
    [] op = "OP_SUBTRACTION" -> oct_assign(o, v, [k |-> -k, v |-> u])
    [] op = "OP_MULTIPLICATION" -> oct_set(o, v, MulI(get_interval(o, u), k))
    [] op = "OP_DIVISION" ->
         IF k = 0 THEN set_to_bottom(o)
         ELSE oct_set(o, v, DivI(get_interval(o, u), k))

\* apply(operation_t op, x, y, k)
oct_apply(o, op, v, u, k) ==
  IF o.is_bottom THEN o ELSE ApplyNormalized(normalize(o), op, v, u, k)

\* apply(int_conv_operation_t op, dst, src)
oct_apply_conv(o, dst, src) == oct_assign(o, dst, Var(src))

\* apply(bitwise_operation_t op, x, y, k) for OP_SHL
ShlNormalized(o, v, u, k) == oct_set(o, v, ShlI(oct_get(o, u), k))
oct_apply_bitwise(o, v, u, k) == ShlNormalized(normalize(o), v, u, k)

\* apply(div_operation_t op, x, y, k) for OP_SDIV and OP_UDIV
UDivNormalized(o, v, u, k) == oct_set(o, v, UDivI(oct_get(o, u), k))
oct_apply_div(o, op, v, u, k) ==
  IF op = "OP_SDIV" THEN oct_apply(o, "OP_DIVISION", v, u, k)
  ELSE UDivNormalized(normalize(o), v, u, k)

\* add_linear_leq, one step of the loop over the bounds that follow from a
\* new bound: the edge s -> d takes the weight w.
CloseBound(o, g1, r) ==
  IF r.ok THEN [ok |-> TRUE, o |-> [o EXCEPT !.graph = g1,
                                             !.potential = r.potential]]
  ELSE [ok |-> FALSE, o |-> set_to_bottom(o)]
CloseBoundEdge(o, g1, s, d) ==
  CloseBound(o, g1, repair_potential(g1, o.potential, s, d))

\* add_linear_leq, the loop over the triples <<s, d, w>> of todo in the
\* order of s.
RECURSIVE CloseBounds(_, _, _)
CloseBoundsFrom(r, rest, k) ==
  IF r.ok THEN CloseBounds(r.o, rest, k) ELSE r
CloseBoundsAt(o, todo, k, t) ==
  CloseBoundsFrom(CloseBoundEdge(o, update_edge(o.graph, t[1], t[3] + 2 * k,
                                                t[2]),
                                 t[1], t[2]),
                  todo \ {t}, k)
CloseBounds(o, todo, k) ==
  IF todo = {} THEN [ok |-> TRUE, o |-> o]
  ELSE CloseBoundsAt(o, todo, k,
                     CHOOSE p \in todo : \A q \in todo : p[1] <= q[1])

\* add_linear_leq, the bound x >= k: the edge p -> p + 1 and the bounds of
\* the other variables that follow from it.
LbBounds(g, p) ==
  {<<f, e, edge_val(g, p + 1, f) + edge_val(g, e, p)>> :
     <<f, e>> \in {q \in succs(g, p + 1) \X preds(g, p) :
                     q[2] % 2 # 0 /\ q[1] + 1 = q[2]}}
LbEdge(r, k) ==
  IF r.ok THEN CloseBounds(r.o, LbBounds(r.o.graph, r.vert), k)
  ELSE [ok |-> FALSE, o |-> r.o]
LbAt(o, p, k) ==
  IF elem(o.graph, p, p + 1) /\ edge_val(o.graph, p, p + 1) <= -2 * k
  THEN [ok |-> TRUE, o |-> o]
  ELSE LbEdge([vert |-> p] @@
              CloseBoundEdge(o, set_edge(o.graph, p, -2 * k, p + 1), p, p + 1),
              k)
LbVert(r, k) == LbAt(r.o, r.vert, k)
add_lb(o, v, k) == LbVert(get_vert(o, v), k)

\* add_linear_leq, the bound x <= k
UbBounds(g, p) ==
  {<<f, e, edge_val(g, f, p + 1) + edge_val(g, p, e)>> :
     <<f, e>> \in {q \in preds(g, p + 1) \X succs(g, p) :
                     q[2] % 2 = 0 /\ q[1] - 1 = q[2]}}
UbEdge(r, k) ==
  IF r.ok THEN CloseBounds(r.o, UbBounds(r.o.graph, r.vert), k)
  ELSE [ok |-> FALSE, o |-> r.o]
UbAt(o, p, k) ==
  IF elem(o.graph, p + 1, p) /\ edge_val(o.graph, p + 1, p) <= 2 * k
  THEN [ok |-> TRUE, o |-> o]
  ELSE UbEdge([vert |-> p] @@
              CloseBoundEdge(o, set_edge(o.graph, p + 1, 2 * k, p), p + 1, p),
              k)
UbVert(r, k) == UbAt(r.o, r.vert, k)
add_ub(o, v, k) == UbVert(get_vert(o, v), k)

\* A linear constraint c * v + k <= 0 with c = 1 or c = -1, or k <= 0 when
\* v is NoVar.
Leq(c, v, k) == [c |-> c, v |-> v, k |-> k]
is_tautology(cst) == cst.v = NoVar /\ cst.k <= 0
is_contradiction(cst) == cst.v = NoVar /\ cst.k > 0

\* add_linear_leq(exp) for exp = c * v + k: diffcsts_of_lin_leq gives the
\* bound v <= -k for c = 1 and the bound v >= k for c = -1.
LeqNormalized(o, cst) ==
  IF cst.c = 1 THEN add_ub(o, cst.v, -cst.k) ELSE add_lb(o, cst.v, cst.k)
add_linear_leq(o, cst) == LeqNormalized(normalize(o), cst)

\* operator+=(linear_constraint_t) for an inequality
ConstraintAdded(r) == IF r.ok THEN r.o ELSE set_to_bottom(r.o)
ConstraintNormalized(o, cst) ==
  IF is_tautology(cst) THEN o
  ELSE IF is_contradiction(cst) THEN set_to_bottom(o)
  ELSE ConstraintAdded(add_linear_leq(o, cst))
oct_add_constraint(o, cst) ==
  IF o.is_bottom THEN o ELSE ConstraintNormalized(normalize(o), cst)

\* forget(it, end)
RECURSIVE ForgetRange(_, _)
ForgetRange(o, range) ==
  IF range = <<>> THEN o
  ELSE ForgetRange(IF Head(range) \in DOMAIN o.vert_map
                   THEN oct_forget(o, Head(range)) ELSE o, Tail(range))
oct_forget_range(o, range) == IF o.is_bottom THEN o ELSE ForgetRange(o, range)

\* project(vIt, vEt): the loop over the vertices from v on.
RECURSIVE ProjectLoop(_, _, _)
ProjectLoop(o, save, v) ==
  IF v >= Size(o.rev_map) THEN o
  ELSE ProjectLoop(IF v \notin save /\ o.rev_map[v] # NoVar
                   THEN oct_forget(o, o.rev_map[v]) ELSE o, save, v + 1)

\* project, the vertices of the variables of range that have vertices.
SaveVerts(o, kept) ==
  {o.vert_map[u][1] : u \in kept} \cup {o.vert_map[u][2] : u \in kept}
ProjectNormalized(o, range) ==
  ProjectLoop(o, SaveVerts(o, {range[i] : i \in 1 .. Len(range)}
                                \cap DOMAIN o.vert_map), 0)

oct_project(o, range) ==
  IF o.is_bottom THEN o
  ELSE IF range = <<>> THEN o
  ELSE ProjectNormalized(normalize(o), range)

\* rename(from, to) for vectors of one variable
oct_rename(o, from, to) ==
  IF oct_is_top(o) \/ o.is_bottom THEN o
  ELSE IF from \notin DOMAIN o.vert_map THEN o
  ELSE LET p == o.vert_map[from]
       IN [o EXCEPT
             !.vert_map = [u \in (DOMAIN o.vert_map \ {from}) \cup {to} |->
                             IF u = to THEN p ELSE o.vert_map[u]],
             !.rev_map = [[o.rev_map EXCEPT ![p[1]] = to] EXCEPT ![p[2]] = to]]

----------------------------------------------------------------------------
(* The wrapper SplitOCT: a value is a pair of shared pointers base_ref and *)
(* norm_ref to SplitOCT_ payloads.  heap maps the id of a live payload to   *)
(* the payload; self is the wrapper value the operations are applied to,    *)
(* alias a second wrapper value made by the copy constructor.               *)

Null == 0
NoHandle == [base_ref |-> Null, norm_ref |-> Null]

\* SplitOCT_(const OCT_t&) without the test of o._is_bottom.
copy_ctor_not_bottom(p) == [p EXCEPT !.is_bottom = FALSE]

\* SplitOCT_(const OCT_t&)
copy_ctor(p) ==
  LET c == [p EXCEPT !.is_bottom = FALSE]
  IN IF p.is_bottom THEN set_to_bottom(c) ELSE c

\* shared_ptr::use_count of the payload id among the wrapper values hs.
use_count(hs, id) ==
  Cardinality({i \in 1 .. Len(hs) : hs[i].base_ref = id}) +
  Cardinality({i \in 1 .. Len(hs) : hs[i].norm_ref = id})

\* The payloads that some wrapper value of hs points to.
Live(hp, hs) ==
  [id \in {r \in DOMAIN hp : use_count(hs, r) > 0} |-> hp[id]]

\* make_shared: an id that is not in use.
NewRef(hp) == SetMin((1 .. Cardinality(DOMAIN hp) + 1) \ DOMAIN hp)

\* lock() without the copy of a shared payload.
lock_in_place(hp, h, other) ==
  [heap |-> hp, h |-> [base_ref |-> Null, norm_ref |-> h.norm_ref]]

\* lock() of the wrapper value h, where other is the other wrapper value.
lock(hp, h, other) ==
  LET unique == use_count(<<h, other>>, h.norm_ref) = 1
      id == NewRef(hp)
      hp1 == IF unique THEN hp
             ELSE [r \in DOMAIN hp \cup {id} |->
                     IF r = id THEN copy_ctor(hp[h.norm_ref]) ELSE hp[r]]
      h1 == [base_ref |-> Null,
             norm_ref |-> IF unique THEN h.norm_ref ELSE id]
  IN [heap |-> Live(hp1, <<h1, other>>), h |-> h1]

\* norm() of self
Norm == heap[self.norm_ref]

\* A mutator of the wrapper: lock(), then the operation F of SplitOCT_ on
\* norm().
Mutate(F(_), rec) ==
  LET l == lock(heap, self, alias)
  IN /\ nops > 0
     /\ nops' = nops - 1
     /\ heap' = [l.heap EXCEPT ![l.h.norm_ref] = F(l.heap[l.h.norm_ref])]
     /\ self' = l.h
     /\ last' = rec
     /\ UNCHANGED <<array_map, inv, index_map, saved, alias>>

\* SplitOCT(): one wrapper value, top.
InitOct ==
  /\ array_map = [a \in Arrays |-> {}]
  /\ inv = NumTop
  /\ index_map = [t \in {} |-> 0]
  /\ saved = [array_map |-> [a \in Arrays |-> {}], inv |-> NumTop]
  /\ heap = [r \in {1} |-> OctTop]
  /\ self = [base_ref |-> Null, norm_ref |-> 1]
  /\ alias = NoHandle
  /\ vfac = 0

----------------------------------------------------------------------------
(* The array smashing domain over the split octagon domain.                *)

\* The temporary a_prime of the k-th array_load.
Tmp(k) == <<"tmp", k>>

\* array_smashing::array_load for an array of integers, with
\* domain_traits<SplitOCT>::expand
oct_array_load(o, lhs, a, tmp) ==
  oct_forget(oct_assign(oct_expand(o, a, tmp), lhs, Var(tmp)), tmp)

MaxSmashOctOps == 4
SmashOctValues == {Const(0), Const(5)}
SmashOctVars == {x, n, arrA, arrB} \cup {Tmp(k) : k \in 0 .. MaxSmashOctOps}

OctRec(op, a, lhs, val) ==
  [op |-> op, a |-> a, lhs |-> lhs, val |-> val, tmp |-> Tmp(vfac),
   pre |-> Norm]

InitSmashOct ==
  /\ InitOct
  /\ last = [op |-> "none", a |-> arrA, lhs |-> NoVar, val |-> Const(0),
             tmp |-> Tmp(0), pre |-> OctTop]
  /\ nops = MaxSmashOctOps

\* An operation of the array smashing domain on _inv; array_load takes a
\* fresh temporary from the variable factory.
SmashOctStep(F(_), op, a, lhs, val) ==
  /\ Mutate(F, OctRec(op, a, lhs, val))
  /\ vfac' = IF op = "load" THEN vfac + 1 ELSE vfac

\* array_init of an array of integers: _inv.assign(a, val)
SmashOctInit(a, val) ==
  SmashOctStep(LAMBDA o : oct_assign(o, a, val), "init", a, NoVar, val)

\* array_store with is_singleton: strong_update, _inv.assign(a, val)
SmashOctStore(a, val) ==
  SmashOctStep(LAMBDA o : oct_assign(o, a, val), "store", a, NoVar, val)

SmashOctLoad(lhs, a) ==
  SmashOctStep(LAMBDA o : oct_array_load(o, lhs, a, Tmp(vfac)),
               "load", a, lhs, Const(0))

\* array_smashing::assign(v, e)
SmashOctAssign(v, e) ==
  SmashOctStep(LAMBDA o : oct_assign(o, v, e), "assign", arrA, v, e)

\* array_smashing::operator-=
SmashOctForget(v) ==
  SmashOctStep(LAMBDA o : oct_forget(o, v), "forget", arrA, v, Const(0))

NextSmashOct ==
  \/ \E a \in SmashArrays, val \in SmashOctValues : SmashOctInit(a, val)
  \/ \E a \in SmashArrays, val \in SmashOctValues : SmashOctStore(a, val)
  \/ \E lhs \in {x, n}, a \in SmashArrays : SmashOctLoad(lhs, a)
  \/ \E e \in {Const(7), Var(n)} : SmashOctAssign(x, e)
  \/ \E v \in {x, arrA} : SmashOctForget(v)

SpecSmashOct == InitSmashOct /\ [][NextSmashOct]_vars

\* C9: array_load(lhs, a, _, i) of the array smashing domain gives lhs the
\* value of a through a temporary: afterwards lhs has the interval that a
\* had, a and every variable other than lhs have the interval they had, and
\* the temporary has no vertex and no interval.
C9_SmashLoad ==
  (last.op = "load" /\ ~last.pre.is_bottom) =>
    /\ ~Norm.is_bottom
    /\ oct_get(Norm, last.lhs) = oct_get(last.pre, last.a)
    /\ \A v \in SmashOctVars \ {last.lhs} :
         oct_get(Norm, v) = oct_get(last.pre, v)
    /\ last.tmp \notin DOMAIN Norm.vert_map

\* A load has given lhs the interval [5, 5] of a.
C9_Witness ==
  /\ last.op = "load" /\ ~last.pre.is_bottom
  /\ oct_get(last.pre, last.a) = ConstI(5)
  /\ oct_get(Norm, last.lhs) = ConstI(5)
  /\ last.tmp \notin DOMAIN Norm.vert_map

\* The same statement over the scalar domain of intervals, with the expand
\* of domain_traits.
C9_SmashLoadIntervals ==
  (last.op = "load") =>
    /\ NumGet(inv, last.lhs) = NumGet(last.pre, last.a)
    /\ \A v \in SmashVars \ {last.lhs} : NumGet(inv, v) = NumGet(last.pre, v)
    /\ NumGet(inv, a_prime) = (IF inv.is_bottom THEN BotI ELSE TopI)

----------------------------------------------------------------------------
(* The split octagon domain as a state machine: the transfer and           *)
(* management operations of the wrapper applied to self, and the copy       *)
(* constructor, which makes alias share the payloads of self.               *)

MaxOctOps == 3
OctVars == {x, y}
OctExprs == {Const(1), [k |-> 1, v |-> x], Var(y)}
OctIntervals == {[lb |-> Fin(0), ub |-> Fin(5)], [lb |-> MInf, ub |-> Fin(3)],
                 [lb |-> Fin(2), ub |-> PInf], TopI}
ArithOps == {"OP_ADDITION", "OP_SUBTRACTION", "OP_MULTIPLICATION",
             "OP_DIVISION"}
DivOps == {"OP_SDIV", "OP_UDIV"}
OctNumbers == {0, 2}
OctConstraints == {Leq(1, NoVar, 1), Leq(1, NoVar, 0), Leq(1, x, -3),
                   Leq(-1, x, 1), Leq(1, y, 0)}
ProjectRanges == {<<>>, <<x>>}

InitSplitOct ==
  /\ InitOct
  /\ last = [op |-> "none", a |-> NoVar, lhs |-> NoVar, val |-> Const(0),
             tmp |-> Tmp(0), pre |-> OctTop]
  /\ nops = MaxOctOps

OctStep(F(_), op, u, v) ==
  /\ Mutate(F, OctRec(op, u, v, Const(0)))
  /\ UNCHANGED vfac

OctAssign(v, e) == OctStep(LAMBDA o : oct_assign(o, v, e), "assign", e.v, v)
OctSet(v, intv) ==
  /\ Mutate(LAMBDA o : oct_set(o, v, intv), OctRec("set", NoVar, v, intv))
  /\ UNCHANGED vfac
OctApply(op, v, u, k) ==
  OctStep(LAMBDA o : oct_apply(o, op, v, u, k), "apply", u, v)
OctApplyConv(dst, src) ==
  OctStep(LAMBDA o : oct_apply_conv(o, dst, src), "apply_conv", src, dst)
OctApplyBitwise(v, u, k) ==
  OctStep(LAMBDA o : oct_apply_bitwise(o, v, u, k), "apply_bitwise", u, v)
OctApplyDiv(op, v, u, k) ==
  OctStep(LAMBDA o : oct_apply_div(o, op, v, u, k), "apply_div", u, v)
\* operator+=(linear_constraint_system_t) with one constraint
OctAddConstraint(cst) ==
  OctStep(LAMBDA o : IF o.is_bottom THEN o ELSE oct_add_constraint(o, cst),
          "add_constraint", NoVar, cst.v)
OctForgetVar(v) == OctStep(LAMBDA o : oct_forget(o, v), "forget", NoVar, v)
OctForgetRange(range) ==
  OctStep(LAMBDA o : oct_forget_range(o, range), "forget_range", NoVar, NoVar)
OctProject(range) ==
  OctStep(LAMBDA o : oct_project(o, range), "project", NoVar, NoVar)
\* expand(v, new_v); new_v in vert_map is an error.
OctExpand(v, new_v) ==
  /\ new_v \notin DOMAIN Norm.vert_map
  /\ OctStep(LAMBDA o : oct_expand(o, v, new_v), "expand", v, new_v)
OctRename(from, to) ==
  /\ to \notin DOMAIN Norm.vert_map
  /\ OctStep(LAMBDA o : oct_rename(o, from, to), "rename", from, to)

\* SplitOCT(const OCT_t& o): alias becomes a copy of self.
OctCopy ==
  /\ nops > 0
  /\ nops' = nops - 1
  /\ alias' = self
  /\ heap' = Live(heap, <<self, self>>)
  /\ last' = OctRec("copy", NoVar, NoVar, Const(0))
  /\ UNCHANGED <<array_map, inv, index_map, saved, self, vfac>>

NextSplitOct ==
  \/ \E v \in OctVars, e \in OctExprs : OctAssign(v, e)
  \/ \E v \in OctVars, intv \in OctIntervals : OctSet(v, intv)
  \/ \E op \in ArithOps, k \in OctNumbers : OctApply(op, x, y, k)
  \/ OctApplyConv(x, y)
  \/ OctApplyBitwise(x, y, 1)
  \/ \E op \in DivOps, k \in OctNumbers : OctApplyDiv(op, x, y, k)
  \/ \E cst \in OctConstraints : OctAddConstraint(cst)
  \/ \E v \in OctVars : OctForgetVar(v)
  \/ OctForgetRange(<<x, y>>)
  \/ \E range \in ProjectRanges : OctProject(range)
  \/ OctExpand(x, n)
  \/ OctRename(x, n)
  \/ OctCopy

SpecSplitOct == InitSplitOct /\ [][NextSplitOct]_vars

\* C10: a bottom SplitOCT value stays bottom: after every transfer and
\* management operation applied to a value for which is_bottom() holds,
\* is_bottom() holds.
C10_BottomStaysBottom == last.pre.is_bottom => Norm.is_bottom

\* An operation was applied to a bottom value whose payload a copy shared,
\* so that lock() cloned the payload, and the value is bottom.
C10_Witness ==
  /\ last.pre.is_bottom
  /\ last.op \notin {"none", "copy"}
  /\ alias # NoHandle /\ alias.norm_ref # self.norm_ref
  /\ Norm.is_bottom

----------------------------------------------------------------------------
(* The lattice operations of SplitOCT_: join, widening and meet of two      *)
(* values a and b.  flat_map iterates over vert_map in the order of the     *)
(* variables.                                                               *)

VarRank(v) == (IF v[1] = "p" THEN 0 ELSE IF v[1] = "arr" THEN 100 ELSE 200)
              + v[2]

RECURSIVE SortVars(_)
SortVars(S) ==
  IF S = {} THEN <<>>
  ELSE <<CHOOSE m \in S : \A u \in S : VarRank(m) <= VarRank(u)>> \o
       SortVars(S \ {CHOOSE m \in S : \A u \in S : VarRank(m) <= VarRank(u)})

IndexOf(vs, v) == CHOOSE i \in 1 .. Len(vs) : vs[i] = v

\* perm_x: the vertices of the variables of vs in a, two for a variable.
PermOf(a, vs) ==
  [i \in 0 .. 2 * Len(vs) - 1 |-> a.vert_map[vs[(i \div 2) + 1]][(i % 2) + 1]]

\* out_vmap and out_revmap: the i-th variable has the vertices 2i and 2i + 1.
OutVmap(vs) ==
  [v \in {vs[i] : i \in 1 .. Len(vs)} |->
     <<2 * (IndexOf(vs, v) - 1), 2 * (IndexOf(vs, v) - 1) + 1>>]
OutRevmap(vs) == [i \in 0 .. 2 * Len(vs) - 1 |-> vs[(i \div 2) + 1]]

\* pot_rx: the potential of the first vertex of a variable and its negation.
JoinPot(a, vs) ==
  [i \in 0 .. 2 * Len(vs) - 1 |->
     IF i % 2 = 0 THEN a.potential[a.vert_map[vs[(i \div 2) + 1]][1]]
     ELSE -a.potential[a.vert_map[vs[(i \div 2) + 1]][1]]]

\* join, the deferred relations g_ix_ry: for an edge s -> d of gr between
\* two variables, the edge of weight (ws + wd) / 2 when gb has the bounds
\* ws on s -> comp(s) and wd on comp(d) -> d.
Deferred(gr, gb) ==
  [size |-> gr.size, free |-> <<>>,
   E |-> [e \in {f \in DOMAIN SplitGraph(gr).E :
                   /\ elem(gb, f[1], comp(f[1]))
                   /\ elem(gb, comp(f[2]), f[2])} |->
            TDiv(edge_val(gb, e[1], comp(e[1]))
                 + edge_val(gb, comp(e[2]), e[2]), 2)]]

\* join, g_rx: the meet of gx with the deferred relations, closed.
CloseMeet(g) == apply_delta(g, close_after_meet(SplitGraph(g)))
JoinSide(gx, gy) == CloseMeet(graph_meet(gx, Deferred(gy, gx)))

\* join, the vertices whose upper bound (edge v + 1 -> v) or lower bound
\* (edge v -> v + 1) is smaller in gs than in gl.
UbSmaller(gs, gl) ==
  {v \in 0 .. gs.size - 1 :
     /\ v % 2 = 0
     /\ elem(gs, v + 1, v) /\ elem(gl, v + 1, v)
     /\ edge_val(gs, v + 1, v) < edge_val(gl, v + 1, v)}
LbSmaller(gs, gl) ==
  {v \in 0 .. gs.size - 1 :
     /\ v % 2 = 0
     /\ elem(gs, v, v + 1) /\ elem(gl, v, v + 1)
     /\ edge_val(gs, v, v + 1) < edge_val(gl, v, v + 1)}

\* join, the edges s -> d for s of lbs and d of ubs.
BoundEdges(gx, gy, lbs, ubs) ==
  [e \in {f \in lbs \X ubs : f[1] # f[2]} |->
     Max(TDiv(edge_val(gx, e[1], e[1] + 1), 2)
         + TDiv(edge_val(gx, e[2] + 1, e[2]), 2),
         TDiv(edge_val(gy, e[1], e[1] + 1), 2)
         + TDiv(edge_val(gy, e[2] + 1, e[2]), 2))]

\* join, lb_up with ub_up and lb_down with ub_down
JoinBounds(g, gx, gy) ==
  apply_delta(apply_delta(g, BoundEdges(gx, gy, LbSmaller(gy, gx),
                                        UbSmaller(gx, gy))),
              BoundEdges(gx, gy, LbSmaller(gx, gy), UbSmaller(gy, gx)))

\* join, the even vertices v with no edge at v and at v + 1.
Orphans(g) ==
  {v \in 0 .. g.size - 1 :
     /\ v % 2 = 0
     /\ \A e \in DOMAIN g.E : e[1] \notin {v, v + 1} /\ e[2] \notin {v, v + 1}}

RECURSIVE ForgetOrphans(_, _)
ForgetOrphans(g, vs) ==
  IF vs = {} THEN g
  ELSE ForgetOrphans(graph_forget(graph_forget(g, SetMin(vs)), SetMin(vs) + 1),
                     vs \ {SetMin(vs)})

\* join, the result without the variables of the orphan vertices.
JoinResult(vs, g, pot, orphans) ==
  [is_bottom |-> FALSE,
   vert_map |-> [v \in {u \in DOMAIN OutVmap(vs) :
                          OutVmap(vs)[u][1] \notin orphans} |-> OutVmap(vs)[v]],
   rev_map |-> [i \in DOMAIN OutRevmap(vs) |->
                  IF (i \div 2) * 2 \in orphans THEN NoVar
                  ELSE OutRevmap(vs)[i]],
   graph |-> ForgetOrphans(g, orphans),
   potential |-> pot,
   unstable |-> {}]

JoinCollect(vs, g, pot) == JoinResult(vs, g, pot, Orphans(g))

JoinGraphs(a, vs, gx, gy) ==
  JoinCollect(vs, JoinBounds(graph_join(JoinSide(gx, gy), JoinSide(gy, gx)),
                             gx, gy),
              JoinPot(a, vs))

JoinViews(a, b, vs) ==
  JoinGraphs(a, vs, GrPerm(PermOf(a, vs), a.graph),
             GrPerm(PermOf(b, vs), b.graph))

\* operator|, after normalize() and o.normalize()
JoinNormalized(a, b) ==
  JoinViews(a, b, SortVars(DOMAIN a.vert_map \cap DOMAIN b.vert_map))

\* operator| without the tests of bottom and top
oct_join_no_early_return(a, b) == JoinNormalized(normalize(a), normalize(b))

\* operator|
oct_join(a, b) ==
  IF a.is_bottom \/ oct_is_top(b) THEN copy_ctor(b)
  ELSE IF oct_is_top(a) \/ b.is_bottom THEN copy_ctor(a)
  ELSE JoinNormalized(normalize(a), normalize(b))

\* operator||, the potentials of the vertices of a.
WidenPot(a, vs) ==
  [i \in 0 .. 2 * Len(vs) - 1 |->
     a.potential[a.vert_map[vs[(i \div 2) + 1]][(i % 2) + 1]]]

\* operator||, the result: the unstable vertices of a and the destabilized
\* vertices of the widened graph.
WidenResult(a, vs, w) ==
  [is_bottom |-> FALSE, vert_map |-> OutVmap(vs), rev_map |-> OutRevmap(vs),
   graph |-> w.g, potential |-> WidenPot(a, vs),
   unstable |-> a.unstable \cup w.destabilized]

WidenViews(a, b, vs) ==
  WidenResult(a, vs, graph_widen(GrPerm(PermOf(a, vs), a.graph),
                                 GrPerm(PermOf(b, vs), b.graph)))

\* operator||, after o.normalize()
WidenNormalized(a, b) ==
  WidenViews(a, b, SortVars(DOMAIN a.vert_map \cap DOMAIN b.vert_map))

\* operator||
oct_widen(a, b) ==
  IF a.is_bottom THEN copy_ctor(b)
  ELSE IF b.is_bottom THEN copy_ctor(a)
  ELSE WidenNormalized(a, normalize(b))

\* widening_thresholds(o, ts)
widening_thresholds(a, b, ts) == oct_widen(a, b)

\* operator&, the variables of a and then the other variables of b.
MeetVars(a, b) ==
  SortVars(DOMAIN a.vert_map) \o
  SortVars(DOMAIN b.vert_map \ DOMAIN a.vert_map)

\* operator&, perm_x and perm_y: -1 for a variable the value does not have.
MeetPerm(a, vs) ==
  [i \in 0 .. 2 * Len(vs) - 1 |->
     IF vs[(i \div 2) + 1] \in DOMAIN a.vert_map
     THEN a.vert_map[vs[(i \div 2) + 1]][(i % 2) + 1] ELSE -1]

\* operator&, meet_pi: the potentials of a, and of b for its other variables.
MeetPot(a, b, vs) ==
  [i \in 0 .. 2 * Len(vs) - 1 |->
     IF vs[(i \div 2) + 1] \in DOMAIN a.vert_map
     THEN a.potential[a.vert_map[vs[(i \div 2) + 1]][(i % 2) + 1]]
     ELSE b.potential[b.vert_map[vs[(i \div 2) + 1]][(i % 2) + 1]]]

\* operator&, after select_potentials: bottom when it failed, otherwise the
\* graph closed by close_after_meet.
MeetClosed(vs, g, r) ==
  IF ~r.ok THEN OctBottom
  ELSE [is_bottom |-> FALSE, vert_map |-> OutVmap(vs),
        rev_map |-> OutRevmap(vs), graph |-> CloseMeet(g),
        potential |-> r.potential, unstable |-> {}]

MeetGraph(vs, g, pot) == MeetClosed(vs, g, select_potentials(g, pot))

MeetViews(a, b, vs) ==
  MeetGraph(vs, graph_meet(GrPerm(MeetPerm(a, vs), a.graph),
                           GrPerm(MeetPerm(b, vs), b.graph)),
            MeetPot(a, b, vs))

\* operator&, after normalize() and o.normalize()
MeetNormalized(a, b) == MeetViews(a, b, MeetVars(a, b))

\* operator&
oct_meet(a, b) ==
  IF a.is_bottom \/ b.is_bottom THEN OctBottom
  ELSE IF oct_is_top(a) THEN copy_ctor(b)
  ELSE IF oct_is_top(b) THEN copy_ctor(a)
  ELSE MeetNormalized(normalize(a), normalize(b))

----------------------------------------------------------------------------
(* The lattice operations as a state machine: two wrapper values self and  *)
(* alias, both top at first.  A transfer operation is applied to either;    *)
(* a lattice operation takes the two in either order and its result is      *)
(* assigned to self.                                                        *)

MaxLatOps == 4
LatTargets == {"self", "alias"}
LatOrders == {"self_alias", "alias_self"}
LatIntervals == {[lb |-> Fin(0), ub |-> Fin(5)], [lb |-> MInf, ub |-> Fin(3)]}
LatExprs == {[k |-> 1, v |-> y], Var(y)}
LatConstraints == {Leq(1, x, -3), Leq(1, y, -5), Leq(1, NoVar, 1)}
Thresholds == {100}

\* base() and norm() of a wrapper value
BaseRef(h) == IF h.base_ref # Null THEN h.base_ref ELSE h.norm_ref
Handle(t) == IF t = "self" THEN self ELSE alias
Other(t) == IF t = "self" THEN alias ELSE self

LatRec(op, t, u, v, val, left, right) ==
  [op |-> op, target |-> t, a |-> u, lhs |-> v, val |-> val,
   pre |-> heap[Handle(t).norm_ref], left |-> left, right |-> right,
   pre_self |-> heap[self.norm_ref], pre_alias |-> heap[alias.norm_ref],
   res |-> FALSE, ts |-> {}]

InitLattice ==
  /\ array_map = [a \in Arrays |-> {}]
  /\ inv = NumTop
  /\ index_map = [t \in {} |-> 0]
  /\ saved = [array_map |-> [a \in Arrays |-> {}], inv |-> NumTop]
  /\ heap = [r \in {1, 2} |-> OctTop]
  /\ self = [base_ref |-> Null, norm_ref |-> 1]
  /\ alias = [base_ref |-> Null, norm_ref |-> 2]
  /\ vfac = 0
  /\ last = [op |-> "none", target |-> "self", a |-> NoVar, lhs |-> NoVar,
             val |-> TopI, pre |-> OctTop, left |-> OctTop, right |-> OctTop,
             pre_self |-> OctTop, pre_alias |-> OctTop, res |-> FALSE,
             ts |-> {}]
  /\ nops = MaxLatOps

\* The wrapper values after lock() of the value t.
Locked(t) == lock(heap, Handle(t), Other(t))

\* A mutator of the wrapper value t: lock(), then the operation F of
\* SplitOCT_ on norm().
LatCommit(t, l, p, rec) ==
  /\ nops > 0
  /\ nops' = nops - 1
  /\ heap' = [l.heap EXCEPT ![l.h.norm_ref] = p]
  /\ self' = IF t = "self" THEN l.h ELSE self
  /\ alias' = IF t = "alias" THEN l.h ELSE alias
  /\ last' = rec
  /\ UNCHANGED <<array_map, inv, index_map, saved, vfac>>

LatStep(F(_), t, op, u, v, val) ==
  LatCommit(t, Locked(t), F(Locked(t).heap[Locked(t).h.norm_ref]),
            LatRec(op, t, u, v, val, OctTop, OctTop))

LatSet(t, v, intv) ==
  LatStep(LAMBDA o : oct_set(o, v, intv), t, "set", NoVar, v, intv)
LatAssign(t, v, e) ==
  LatStep(LAMBDA o : oct_assign(o, v, e), t, "assign", e.v, v, TopI)
LatAddConstraint(t, cst) ==
  LatStep(LAMBDA o : IF o.is_bottom THEN o ELSE oct_add_constraint(o, cst),
          t, "add_constraint", NoVar, cst.v, TopI)
LatForget(t, v) ==
  LatStep(LAMBDA o : oct_forget(o, v), t, "forget", NoVar, v, TopI)
LatExpand(t, v, new_v) ==
  /\ new_v \notin DOMAIN heap[Handle(t).norm_ref].vert_map
  /\ LatStep(LAMBDA o : oct_expand(o, v, new_v), t, "expand", v, new_v, TopI)

\* SplitOCT_::normalize() on norm() of the value t, in place.
LatNormalize(t) ==
  /\ nops > 0
  /\ nops' = nops - 1
  /\ heap' = [heap EXCEPT ![Handle(t).norm_ref] = normalize(@)]
  /\ last' = LatRec("normalize", t, NoVar, NoVar, TopI, OctTop, OctTop)
  /\ UNCHANGED <<array_map, inv, index_map, saved, self, alias, vfac>>

\* operator=(const OCT_t& o): alias becomes a copy of self.
LatCopy ==
  /\ nops > 0
  /\ nops' = nops - 1
  /\ alias' = self
  /\ heap' = Live(heap, <<self, self>>)
  /\ last' = LatRec("copy", "self", NoVar, NoVar, TopI, OctTop, OctTop)
  /\ UNCHANGED <<array_map, inv, index_map, saved, self, vfac>>

\* The operands of a lattice operation: the wrapper values left and right.
LeftOf(order) == IF order = "self_alias" THEN self ELSE alias
RightOf(order) == IF order = "self_alias" THEN alias ELSE self

\* operator| and operator& normalize both operands in place unless one of
\* them is bottom or top; operator|| normalizes its right operand in place
\* unless one of them is bottom.
BothNormalized(a, b) ==
  ~(a.is_bottom \/ b.is_bottom \/ oct_is_top(a) \/ oct_is_top(b))
RightNormalized(a, b) == ~(a.is_bottom \/ b.is_bottom)

NormalizedInPlace(hp, ids) ==
  [id \in DOMAIN hp |-> IF id \in ids THEN normalize(hp[id]) ELSE hp[id]]

Put(hp, id, p) == [r \in DOMAIN hp \cup {id} |-> IF r = id THEN p ELSE hp[r]]

\* create(t): self becomes a wrapper value of the new payload t.
Created(hp, id, t, rec) ==
  /\ nops > 0
  /\ nops' = nops - 1
  /\ self' = [base_ref |-> Null, norm_ref |-> id]
  /\ heap' = Live(Put(hp, id, t), <<[base_ref |-> Null, norm_ref |-> id], alias>>)
  /\ last' = rec
  /\ UNCHANGED <<array_map, inv, index_map, saved, alias, vfac>>

\* create_base(t): base is a copy of t, norm is t.
BaseCreated(hp, b, id, t, rec) ==
  /\ nops > 0
  /\ nops' = nops - 1
  /\ self' = [base_ref |-> b, norm_ref |-> id]
  /\ heap' = Live(Put(hp, id, t), <<[base_ref |-> b, norm_ref |-> id], alias>>)
  /\ last' = rec
  /\ UNCHANGED <<array_map, inv, index_map, saved, alias, vfac>>
\* create_base(t) with one payload for base and norm.
create_base_shared(hp, b, t, rec) == BaseCreated(Put(hp, b, t), b, b, t, rec)

create_base(hp, b, t, rec) ==
  BaseCreated(Put(hp, b, copy_ctor(t)), b, NewRef(Put(hp, b, t)), t, rec)

\* self = left | right
LatJoinOf(l, r, rec) ==
  Created(IF BothNormalized(heap[l], heap[r])
            THEN NormalizedInPlace(heap, {l, r}) ELSE heap,
          NewRef(heap), oct_join(heap[l], heap[r]), rec)
LatJoin(order) ==
  LatJoinOf(LeftOf(order).norm_ref, RightOf(order).norm_ref,
            LatRec("join", "self", NoVar, NoVar, TopI,
                   heap[LeftOf(order).norm_ref], heap[RightOf(order).norm_ref]))

\* self = left & right
LatMeetOf(l, r, rec) ==
  Created(IF BothNormalized(heap[l], heap[r])
            THEN NormalizedInPlace(heap, {l, r}) ELSE heap,
          NewRef(heap), oct_meet(heap[l], heap[r]), rec)
LatMeet(order) ==
  LatMeetOf(LeftOf(order).norm_ref, RightOf(order).norm_ref,
            LatRec("meet", "self", NoVar, NoVar, TopI,
                   heap[LeftOf(order).norm_ref], heap[RightOf(order).norm_ref]))

\* self = left || right
LatWidenOf(l, r, rec) ==
  create_base(IF RightNormalized(heap[l], heap[r])
                THEN NormalizedInPlace(heap, {r}) ELSE heap,
              NewRef(heap), oct_widen(heap[l], heap[r]), rec)
LatWiden(order) ==
  LatWidenOf(BaseRef(LeftOf(order)), RightOf(order).norm_ref,
             LatRec("widen", "self", NoVar, NoVar, TopI,
                    heap[BaseRef(LeftOf(order))], heap[RightOf(order).norm_ref]))

\* self = left.widening_thresholds(right, ts)
LatWidenThresholdsOf(l, r, ts, rec) ==
  create_base(IF RightNormalized(heap[l], heap[r])
                THEN NormalizedInPlace(heap, {r}) ELSE heap,
              NewRef(heap), widening_thresholds(heap[l], heap[r], ts), rec)
LatWidenThresholds(order, ts) ==
  LatWidenThresholdsOf(BaseRef(LeftOf(order)), RightOf(order).norm_ref, ts,
             [LatRec("widening_thresholds", "self", NoVar, NoVar, TopI,
                     heap[BaseRef(LeftOf(order))],
                     heap[RightOf(order).norm_ref]) EXCEPT !.ts = ts])

NextLattice ==
  \/ \E t \in LatTargets, v \in OctVars, intv \in LatIntervals : LatSet(t, v, intv)
  \/ \E t \in LatTargets, v \in OctVars, e \in LatExprs : LatAssign(t, v, e)
  \/ \E t \in LatTargets, cst \in LatConstraints : LatAddConstraint(t, cst)
  \/ \E t \in LatTargets, v \in OctVars : LatForget(t, v)
  \/ \E t \in LatTargets : LatExpand(t, x, n)
  \/ \E t \in LatTargets : LatNormalize(t)
  \/ LatCopy
  \/ \E order \in LatOrders : LatJoin(order)
  \/ \E order \in LatOrders : LatMeet(order)
  \/ \E order \in LatOrders : LatWiden(order)
  \/ \E order \in LatOrders, ts \in Thresholds : LatWidenThresholds(order, {ts})

SpecLattice == InitLattice /\ [][NextLattice]_vars

\* Two SplitOCT values are equal: both bottom, both top, or the same value.
OctEq(a, b) ==
  \/ a.is_bottom /\ b.is_bottom
  \/ oct_is_top(a) /\ oct_is_top(b)
  \/ a = b

\* C11: join and meet satisfy the absorption laws in both argument orders:
\* x | bottom and bottom | x equal x, x | top and top | x are top, x & top
\* and top & x equal x, and x & bottom and bottom & x are bottom.
C11_Absorption ==
  /\ last.op = "join" =>
       /\ last.right.is_bottom => OctEq(Norm, last.left)
       /\ last.left.is_bottom => OctEq(Norm, last.right)
       /\ oct_is_top(last.left) \/ oct_is_top(last.right) => oct_is_top(Norm)
  /\ last.op = "meet" =>
       /\ oct_is_top(last.right) => OctEq(Norm, last.left)
       /\ oct_is_top(last.left) => OctEq(Norm, last.right)
       /\ last.left.is_bottom \/ last.right.is_bottom => Norm.is_bottom

\* A value that is neither bottom nor top was joined with bottom and the
\* result is that value.
C11_Witness ==
  /\ last.op = "join"
  /\ last.right.is_bottom
  /\ ~last.left.is_bottom
  /\ ~oct_is_top(last.left)
  /\ Norm = last.left

\* p[v] as check_potential reads it: the read of an entry that the vector
\* does not have is undefined and gives any value.
UndefinedWts == {-100, 0, 100}
PotRead(p, v) == IF v \in DOMAIN p THEN {p[v]} ELSE UndefinedWts

\* check_potential
check_potential(g, p) ==
  \A e \in DOMAIN g.E :
    \A pu \in PotRead(p, e[1]), pv \in PotRead(p, e[2]) :
      pu + g.E[e] - pv >= 0

\* C13: in every reachable non-bottom SplitOCT state, after any sequence of
\* set, assign, add-constraint, forget, expand, normalize, join, meet and
\* widening, every edge u->v of weight w satisfies
\* potential[u] + w - potential[v] >= 0.
C13_PotentialValid ==
  \A id \in DOMAIN heap :
    ~heap[id].is_bottom => check_potential(heap[id].graph, heap[id].potential)

\* The value that the last operation was applied to.
Target == heap[(IF last.target = "self" THEN self ELSE alias).norm_ref]

\* Every edge u->v has the mirror edge neg(v)->neg(u) of equal weight.
Coherent(g) ==
  \A e \in DOMAIN g.E :
    /\ <<comp(e[2]), comp(e[1])>> \in DOMAIN g.E
    /\ g.E[<<comp(e[2]), comp(e[1])>>] = g.E[e]

Shortest(g, u) == Paths(g, [t \in {u} |-> 0], TRUE, g.size)

\* The graph is closed at u: an edge from u, and the bound of u's variable
\* that the edge u -> neg(u) holds, is stored with the weight of the shortest
\* path.
ClosedFrom(g, u, d) ==
  \A w \in DOMAIN d \ {u} :
    elem(g, u, w) \/ w = comp(u) => elem(g, u, w) /\ g.E[<<u, w>>] <= d[w]

Closed(g) == \A u \in verts(g) : ClosedFrom(g, u, Shortest(g, u))

\* C15: the non-bottom result of a meet, and the state after an assign, is
\* closed when its unstable set is empty: every edge weight is the weight of
\* the shortest path between its endpoints, and a unary bound implied by a
\* relational edge together with a bound of the other variable is stored.
C15_ClosedAfterMeetAssign ==
  last.op \in {"meet", "assign"} /\ ~Target.is_bottom /\ Target.unstable = {}
    => Closed(Target.graph)

\* [-w(v+ -> v-)/2, w(v- -> v+)/2] for the vertices <<v+, v->> that vert_map
\* holds for v, a missing edge read as an infinite bound.
PairInterval(o, p) ==
  MkI(IF elem(o.graph, p[1], p[2])
      THEN Fin(TDiv(-edge_val(o.graph, p[1], p[2]), 2)) ELSE MInf,
      IF elem(o.graph, p[2], p[1])
      THEN Fin(TDiv(edge_val(o.graph, p[2], p[1]), 2)) ELSE PInf)

VertsOf(o, v) == {o.vert_map[v][1], o.vert_map[v][1] + 1}

NoIncidentEdge(g, vs) ==
  \A e \in DOMAIN g.E : e[1] \notin vs /\ e[2] \notin vs

NoRevMap(o, vs) ==
  \A p \in vs : p \in DOMAIN o.rev_map => o.rev_map[p] = NoVar

\* C17: after forgetting x on a non-bottom value, x is absent from vert_map,
\* neither of the two vertices that represented x has an incident edge or a
\* rev_map entry, the interval of x is top, and the interval of every other
\* variable is unchanged.
C17_Forget ==
  last.op = "forget" /\ ~last.pre.is_bottom =>
    /\ last.lhs \notin DOMAIN Target.vert_map
    /\ last.lhs \in DOMAIN last.pre.vert_map =>
         /\ NoIncidentEdge(Target.graph, VertsOf(last.pre, last.lhs))
         /\ NoRevMap(Target, VertsOf(last.pre, last.lhs))
    /\ oct_get(Target, last.lhs) = TopI
    /\ \A z \in DOMAIN last.pre.vert_map \ {last.lhs} :
         oct_get(Target, z) = oct_get(last.pre, z)

\* The vertex of the copy that corresponds to the vertex p of the original,
\* where ii and jj are the first vertices of the original and of the copy.
Image(p, ii, jj) == IF p = ii THEN jj ELSE IF p = ii + 1 THEN jj + 1 ELSE p

\* The edge e of g lies between the vertices vs and a vertex outside ws.
Outward(e, vs, ws) ==
  \/ e[1] \in vs /\ e[2] \notin ws
  \/ e[2] \in vs /\ e[1] \notin ws

\* The other vertex of the variable at ii or at jj that p is a vertex of.
Partner(p, ii, jj) ==
  IF p = ii THEN ii + 1 ELSE IF p = ii + 1 THEN ii
  ELSE IF p = jj THEN jj + 1 ELSE jj

\* The edge from s to d says no more than the unary bounds of its two
\* endpoints, which are stored between s and ns and between d and nd.
ImpliedByBounds(g, s, ns, d, nd) ==
  /\ elem(g, s, ns)
  /\ elem(g, nd, d)
  /\ 2 * g.E[<<s, d>>] >= g.E[<<s, ns>>] + g.E[<<nd, d>>]

\* The relations of the copy at jj are those of the original at ii, and the
\* edges between the two are implied by their bounds.
SameRelations(g, ii, jj) ==
  /\ \A e \in DOMAIN g.E :
       Outward(e, {ii, ii + 1}, {ii, ii + 1, jj, jj + 1}) =>
         /\ <<Image(e[1], ii, jj), Image(e[2], ii, jj)>> \in DOMAIN g.E
         /\ g.E[<<Image(e[1], ii, jj), Image(e[2], ii, jj)>>] = g.E[e]
  /\ \A e \in DOMAIN g.E :
       Outward(e, {jj, jj + 1}, {ii, ii + 1, jj, jj + 1}) =>
         /\ <<Image(e[1], jj, ii), Image(e[2], jj, ii)>> \in DOMAIN g.E
         /\ g.E[<<Image(e[1], jj, ii), Image(e[2], jj, ii)>>] = g.E[e]
  /\ \A e \in DOMAIN g.E :
       (e[1] \in {ii, ii + 1} /\ e[2] \in {jj, jj + 1}) \/
       (e[1] \in {jj, jj + 1} /\ e[2] \in {ii, ii + 1}) =>
         ImpliedByBounds(g, e[1], Partner(e[1], ii, jj),
                         e[2], Partner(e[2], ii, jj))

\* Every edge of the graph g is an edge of h with the same weight.
EdgesKept(g, h) ==
  \A e \in DOMAIN g.E : e \in DOMAIN h.E /\ h.E[e] = g.E[e]

\* C18: expand(x, y) with y not yet present creates y with the value of x:
\* afterwards [y] equals [x], y has the same relation to every other variable
\* as x has, no relation between x and y is introduced, and the constraints of
\* x are unchanged.
C18_Expand ==
  last.op = "expand" /\ ~last.pre.is_bottom =>
    /\ oct_get(Target, last.lhs) = oct_get(Target, last.a)
    /\ SameRelations(Target.graph, Target.vert_map[last.a][1],
                     Target.vert_map[last.lhs][1])
    /\ oct_get(Target, last.a) = oct_get(last.pre, last.a)
    /\ EdgesKept(last.pre.graph, Target.graph)

----------------------------------------------------------------------------
(* checker_domain_traits<SplitOCT>::entail                                  *)

\* The equality c * v + k = 0
Equ(c, v, k) == [c |-> c, v |-> v, k |-> k, equality |-> TRUE]
is_equality(cst) == "equality" \in DOMAIN cst

\* linear_constraint::negate of the inequality c * v + k <= 0 over the
\* integers: -(c * v + k) + 1 <= 0.
negate(cst) == Leq(-cst.c, cst.v, 1 - cst.k)

\* is_tautology and is_contradiction of an inequality or an equality
cst_is_tautology(cst) ==
  IF is_equality(cst) THEN cst.v = NoVar /\ cst.k = 0 ELSE is_tautology(cst)
cst_is_contradiction(cst) ==
  IF is_equality(cst) THEN cst.v = NoVar /\ cst.k # 0
  ELSE is_contradiction(cst)

\* constraint_simp_domain_traits::lower_equality
lower_equality(cst) ==
  IF is_equality(cst)
  THEN <<Leq(cst.c, cst.v, cst.k), Leq(-cst.c, cst.v, -cst.k)>>
  ELSE <<cst>>

\* entailment::operator() without the copy: the constraint is adjoined to
\* the payload of inv itself.
entailment_in_place(hp, id, new, cst) ==
  [res |-> oct_add_constraint(hp[id], negate(cst)).is_bottom,
   heap |-> [hp EXCEPT ![id] = oct_add_constraint(hp[id], negate(cst))]]

\* entailment::operator(): dom is a copy of _dom, whose payload id it shares,
\* so that lock() in dom += neg_cst clones the payload to new; dom is
\* destroyed on return.
entailment(hp, id, new, cst) ==
  [res |-> oct_add_constraint(copy_ctor(hp[id]), negate(cst)).is_bottom,
   heap |-> Live(Put(hp, new, oct_add_constraint(copy_ctor(hp[id]),
                                                 negate(cst))),
                 <<self, alias>>)]

\* entail_all_of: std::all_of stops at the first constraint that is not
\* entailed.
RECURSIVE entail_all_of(_, _, _)
EntailRest(r, id, csts) ==
  IF ~r.res THEN r ELSE entail_all_of(r.heap, id, csts)
entail_all_of(hp, id, csts) ==
  IF csts = <<>> THEN [res |-> TRUE, heap |-> hp]
  ELSE EntailRest(entailment(hp, id, NewRef(hp), Head(csts)), id, Tail(csts))

\* entail(inv, cst), where id is the payload of inv
entail(hp, id, cst) ==
  IF hp[id].is_bottom THEN [res |-> TRUE, heap |-> hp]
  ELSE IF cst_is_tautology(cst) THEN [res |-> TRUE, heap |-> hp]
  ELSE IF cst_is_contradiction(cst) THEN [res |-> FALSE, heap |-> hp]
  ELSE IF is_equality(cst) THEN entail_all_of(hp, id, lower_equality(cst))
  ELSE entailment(hp, id, NewRef(hp), cst)

EntailConstraints ==
  {Leq(1, x, -5), Leq(-1, x, 1), Leq(1, x, -2), Equ(1, x, -1),
   Equ(1, NoVar, 0), Leq(1, NoVar, 1)}

Entailed(t, cst, r) ==
  /\ nops > 0
  /\ nops' = nops - 1
  /\ heap' = r.heap
  /\ last' = [LatRec("entail", t, NoVar, cst.v, cst, OctTop, OctTop)
                EXCEPT !.res = r.res]
  /\ UNCHANGED <<array_map, inv, index_map, saved, self, alias, vfac>>

\* entail(inv, cst) for the wrapper value t
Entail(t, cst) == Entailed(t, cst, entail(heap, Handle(t).norm_ref, cst))

NextEntail ==
  \/ \E v \in OctVars, intv \in LatIntervals : LatSet("self", v, intv)
  \/ \E v \in OctVars, e \in OctExprs : LatAssign("self", v, e)
  \/ \E cst \in LatConstraints : LatAddConstraint("self", cst)
  \/ \E v \in OctVars : LatForget("self", v)
  \/ LatCopy
  \/ \E t \in LatTargets, cst \in EntailConstraints : Entail(t, cst)

SpecEntail == InitLattice /\ [][NextEntail]_vars

\* The interval intv of the variable of cst implies cst.
IntervalImplies(intv, cst) ==
  IF is_equality(cst)
  THEN intv.lb = Fin(-cst.c * cst.k) /\ intv.ub = Fin(-cst.c * cst.k)
  ELSE IF cst.c = 1 THEN intv.ub[1] = 0 /\ intv.ub[2] + cst.k <= 0
  ELSE intv.lb[1] = 0 /\ cst.k - intv.lb[2] <= 0

\* C19: entail(inv, cst) returns true when inv implies cst: true for bottom
\* inv and for a tautology, false for a contradiction on non-bottom inv,
\* otherwise, for an inequality, true exactly when adjoining the negation of
\* cst to a copy of inv gives bottom; it is true when the interval of the
\* variable implies cst, as for x in [0, 3] and x <= 5; and inv is not
\* modified.
C19_Entail ==
  last.op = "entail" =>
    /\ last.pre.is_bottom => last.res
    /\ cst_is_tautology(last.val) => last.res
    /\ ~last.pre.is_bottom /\ cst_is_contradiction(last.val) => ~last.res
    /\ /\ ~last.pre.is_bottom
       /\ last.val.v # NoVar
       /\ ~is_equality(last.val)
       => last.res = oct_add_constraint(last.pre, negate(last.val)).is_bottom
    /\ /\ ~last.pre.is_bottom
       /\ last.val.v # NoVar
       /\ IntervalImplies(oct_get(last.pre, last.val.v), last.val)
       => last.res
    /\ heap[self.norm_ref] = last.pre_self
    /\ heap[alias.norm_ref] = last.pre_alias

\* entail returned true for x <= 5 on a value that holds x in [0, 3].
C19_Witness ==
  /\ last.op = "entail"
  /\ ~last.pre.is_bottom
  /\ oct_get(last.pre, x) = [lb |-> Fin(0), ub |-> Fin(3)]
  /\ last.val = Leq(1, x, -5)
  /\ last.res

\* The smallest threshold of ts that is not below k.
NextThreshold(ts, k) == SetMin({t \in ts : t >= k})

\* The upper bound of v grows from a to b and b is not above a threshold.
GrowsBelowThreshold(a, b, ts) ==
  /\ a.ub[1] = 0
  /\ b.ub[1] = 0
  /\ b.ub[2] > a.ub[2]
  /\ \E t \in ts : b.ub[2] <= t

\* C20: widening_thresholds(x, y, ts) uses the thresholds: when the upper
\* bound of a variable is larger in y than in x but not above a threshold of
\* ts, the result bounds the variable by that threshold instead of dropping
\* the bound.
C20_WideningThresholds ==
  (last.op = "widening_thresholds" /\ ~last.left.is_bottom /\ ~last.right.is_bottom) =>
    \A v \in DOMAIN last.left.vert_map \cap DOMAIN last.right.vert_map :
      GrowsBelowThreshold(oct_get(last.left, v), oct_get(last.right, v),
                          last.ts) =>
        oct_get(Norm, v).ub =
          Fin(NextThreshold(last.ts, oct_get(last.right, v).ub[2]))

\* C12: in every reachable SplitOCT state every variable of vert_map is
\* mapped to a pair <<pos, neg>> with pos even and neg = pos + 1, and rev_map
\* maps both pos and neg back to the variable, also when get_vert reuses the
\* vertex ids freed by an earlier forget.
C12_VertPairs ==
  \A v \in DOMAIN Norm.vert_map :
    /\ Norm.vert_map[v][1] % 2 = 0
    /\ Norm.vert_map[v][2] = Norm.vert_map[v][1] + 1
    /\ Norm.rev_map[Norm.vert_map[v][1]] = v
    /\ Norm.rev_map[Norm.vert_map[v][2]] = v

----------------------------------------------------------------------------
(* The widening iteration x := x || f(x): self is the iterate x and alias   *)
(* the value f(x), made from a copy of x by the transfer operations.        *)

MaxWidenOps == 6

\* operator=(const OCT_t& o): self becomes a copy of alias.
LatMove ==
  /\ nops > 0
  /\ nops' = nops - 1
  /\ self' = alias
  /\ heap' = Live(heap, <<alias, alias>>)
  /\ last' = LatRec("move", "self", NoVar, NoVar, TopI, OctTop, OctTop)
  /\ UNCHANGED <<array_map, inv, index_map, saved, alias, vfac>>

InitWiden ==
  /\ array_map = [a \in Arrays |-> {}]
  /\ inv = NumTop
  /\ index_map = [t \in {} |-> 0]
  /\ saved = [array_map |-> [a \in Arrays |-> {}], inv |-> NumTop]
  /\ heap = [r \in {1, 2} |-> OctTop]
  /\ self = [base_ref |-> Null, norm_ref |-> 1]
  /\ alias = [base_ref |-> Null, norm_ref |-> 2]
  /\ vfac = 0
  /\ last = [op |-> "none", target |-> "self", a |-> NoVar, lhs |-> NoVar,
             val |-> TopI, pre |-> OctTop, left |-> OctTop, right |-> OctTop,
             pre_self |-> OctTop, pre_alias |-> OctTop, res |-> FALSE,
             ts |-> {}]
  /\ nops = MaxWidenOps

NextWiden ==
  \/ \E v \in OctVars, intv \in LatIntervals : LatSet("alias", v, intv)
  \/ \E v \in OctVars, e \in LatExprs : LatAssign("alias", v, e)
  \/ LatCopy
  \/ LatMove
  \/ LatNormalize("self")
  \/ LatWiden("self_alias")

SpecWiden == InitWiden /\ [][NextWiden]_vars

\* The edges of a value between the vertices of its variables, by the
\* variables and the signs of the vertices.
NamedEdges(o) ==
  {<<u, i, v, j, edge_val(o.graph, o.vert_map[u][i], o.vert_map[v][j])>> :
     <<u, i, v, j>> \in
       {q \in (DOMAIN o.vert_map) \X {1, 2} \X (DOMAIN o.vert_map) \X {1, 2} :
          elem(o.graph, o.vert_map[q[1]][q[2]], o.vert_map[q[3]][q[4]])}}

\* base() of a wrapper value: the payload of base_ref when it is set.
UnclosedBase(hp, h) ==
  IF h.base_ref # Null THEN hp[h.base_ref] ELSE hp[h.norm_ref]

\* The result res of l || r has variables and edges of l only, each edge
\* with the weight it has in l.
Shrinks(l, res) ==
  /\ ~res.is_bottom
  /\ DOMAIN res.vert_map \subseteq DOMAIN l.vert_map
  /\ NamedEdges(res) \subseteq NamedEdges(l)

\* A step self := self || alias on operands that are not bottom.
WidenStep ==
  /\ last'.op = "widen"
  /\ nops' = nops - 1
  /\ ~UnclosedBase(heap, self).is_bottom
  /\ ~heap[alias.norm_ref].is_bottom

\* C21: the iteration x := x || f(x) stabilizes: every widening is taken
\* from the base value of the left operand, which no operation closes, and
\* its result, kept as the new base next to the value that normalize()
\* closes, has only variables and edges of that base with their weights, so
\* the edges of the iterates can only become fewer.
C21_WideningStabilizes ==
  [][/\ WidenStep =>
          /\ self'.base_ref # Null
          /\ self'.base_ref # self'.norm_ref
          /\ Shrinks(UnclosedBase(heap, self), heap'[self'.base_ref])
     /\ (self.base_ref # Null /\ self'.base_ref = self.base_ref) =>
          heap'[self.base_ref] = heap[self.base_ref]]_vars

\* The iterate is the result of a second widening: its left operand was the
\* base of the first result, with destabilized vertices and not closed, and
\* the second result has fewer edges than that base.
C21_Witness ==
  /\ last.op = "widen"
  /\ self.base_ref # Null
  /\ last.left.unstable # {}
  /\ Cardinality(NamedEdges(heap[self.base_ref])) <
       Cardinality(NamedEdges(last.left))

----------------------------------------------------------------------------
(* to_linear_constraint_system.  A constraint cd * vd + cs * vs rel k of    *)
(* the result is the record of its coefficients, variables, relation and    *)
(* constant; vs is NoVar and cs is 0 in a constraint on one variable.       *)

LinCst(cd, vd, cs, vs, rel, k) ==
  [cd |-> cd, vd |-> vd, cs |-> cs, vs |-> vs, rel |-> rel, k |-> k]

\* linear_expression_t(1) == linear_expression_t(0)
FalseCst == LinCst(0, NoVar, 0, NoVar, "==", -1)

\* to_linear_constraint_system, the first loop: the constraints of the edges
\* between the even vertex v and v + 1.
BoundCsts(o) ==
  {LinCst(1, o.rev_map[v], 0, NoVar, ">=", -TDiv(edge_val(o.graph, v, v + 1), 2)) :
     v \in {u \in verts(SplitGraph(o.graph)) :
              u % 2 = 0 /\ o.rev_map[u] # NoVar /\ elem(o.graph, u, u + 1)}}
  \cup
  {LinCst(1, o.rev_map[v], 0, NoVar, ">=", TDiv(edge_val(o.graph, v + 1, v), 2)) :
     v \in {u \in verts(SplitGraph(o.graph)) :
              u % 2 = 0 /\ o.rev_map[u] # NoVar /\ elem(o.graph, u + 1, u)}}

\* to_linear_constraint_system, the constraint of the edge s -> d of weight w.
EdgeCst(vs, vd, s, d, w) ==
  IF s % 2 = 0 /\ d % 2 = 0 THEN LinCst(1, vd, -1, vs, "<=", w)
  ELSE IF s % 2 # 0 /\ d % 2 = 0 THEN LinCst(1, vd, 1, vs, "<=", w)
  ELSE IF s % 2 = 0 /\ d % 2 # 0 THEN LinCst(-1, vd, -1, vs, "<=", w)
  ELSE LinCst(1, vd, 1, vs, "<=", w)

\* to_linear_constraint_system, the second loop: the edges of the split view
\* between vertices that rev_map gives a variable.
RelationCsts(o, g) ==
  {EdgeCst(o.rev_map[e[1]], o.rev_map[e[2]], e[1], e[2], g.E[e]) :
     e \in {f \in DOMAIN g.E : o.rev_map[f[1]] # NoVar /\ o.rev_map[f[2]] # NoVar}}

LinearCstsNormalized(o) ==
  IF o.is_bottom THEN {FalseCst}
  ELSE BoundCsts(o) \cup RelationCsts(o, SplitGraph(o.graph))

to_linear_constraint_system(o) == LinearCstsNormalized(normalize(o))

\* The constraints of the intervals of the variables: x >= l and x <= u.
IntervalCsts(o) ==
  {LinCst(1, v, 0, NoVar, ">=", oct_get(o, v).lb[2]) :
     v \in {u \in DOMAIN o.vert_map : oct_get(o, u).lb[1] = 0}}
  \cup
  {LinCst(1, v, 0, NoVar, "<=", oct_get(o, v).ub[2]) :
     v \in {u \in DOMAIN o.vert_map : oct_get(o, u).ub[1] = 0}}

\* s_v of a vertex v of the variable u: +u on an even vertex, -u on an odd.
SignOf(v) == IF v % 2 = 0 THEN 1 ELSE -1

\* The constraints s_d - s_s <= w of the relational edges s -> d.
EncodedCsts(o, g) ==
  {LinCst(SignOf(e[2]), o.rev_map[e[2]], -SignOf(e[1]), o.rev_map[e[1]],
          "<=", g.E[e]) :
     e \in {f \in DOMAIN g.E : o.rev_map[f[1]] # NoVar /\ o.rev_map[f[2]] # NoVar}}

\* C22: to_linear_constraint_system gives the constraints of the state by
\* the edge encoding: x >= l and x <= u for the interval [l, u] of every
\* variable x, s_d - s_s <= w for every relational edge s -> d of weight w,
\* and a contradiction for bottom.
C22_ToLinearConstraints ==
  to_linear_constraint_system(Norm) =
    (IF normalize(Norm).is_bottom THEN {FalseCst}
     ELSE IntervalCsts(normalize(Norm)) \cup
          EncodedCsts(normalize(Norm), SplitGraph(normalize(Norm).graph)))

----------------------------------------------------------------------------
(* Aliasing: the mutators of the wrapper applied to self after alias has    *)
(* been made a copy of self, with operator|= among the mutators.            *)

\* SplitOCT_::operator=(SplitOCT_&& o) on the payload p
move_assign(p, o) == IF o.is_bottom THEN set_to_bottom(p) ELSE o

\* SplitOCT_::operator|=(o): *this = *this | o
oct_join_assign(a, b) == move_assign(a, oct_join(a, b))

\* The heap after norm() |= o.norm() on the locked value l: operator|
\* normalizes both payloads in place, then the result is assigned.
JoinAssigned(hp, id, o) ==
  [(IF BothNormalized(hp[id], hp[o]) THEN NormalizedInPlace(hp, {id, o})
    ELSE hp) EXCEPT ![id] = oct_join_assign(hp[id], hp[o])]

\* operator|=(OCT_t o) with alias as o: lock(); norm() |= o.norm()
OctJoinAssignOf(l) ==
  /\ alias # NoHandle
  /\ nops > 0
  /\ nops' = nops - 1
  /\ heap' = JoinAssigned(l.heap, l.h.norm_ref, alias.norm_ref)
  /\ self' = l.h
  /\ last' = OctRec("join_assign", NoVar, NoVar, Const(0))
  /\ UNCHANGED <<array_map, inv, index_map, saved, alias, vfac>>
OctJoinAssign == OctJoinAssignOf(lock(heap, self, alias))

NextAlias ==
  \/ \E v \in OctVars, e \in OctExprs : OctAssign(v, e)
  \/ \E v \in OctVars, intv \in OctIntervals : OctSet(v, intv)
  \/ \E op \in ArithOps, k \in OctNumbers : OctApply(op, x, y, k)
  \/ OctApplyConv(x, y)
  \/ OctApplyBitwise(x, y, 1)
  \/ \E op \in DivOps, k \in OctNumbers : OctApplyDiv(op, x, y, k)
  \/ \E cst \in OctConstraints : OctAddConstraint(cst)
  \/ \E v \in OctVars : OctForgetVar(v)
  \/ OctForgetRange(<<x, y>>)
  \/ \E range \in ProjectRanges : OctProject(range)
  \/ OctExpand(x, n)
  \/ OctRename(x, n)
  \/ OctJoinAssign
  \/ OctCopy

SpecAlias == InitSplitOct /\ [][NextAlias]_vars

\* The value b is the value a: the same payload, or the payload normalized
\* in place, with the same interval for every variable.
SameValue(a, b) ==
  /\ b \in {a, normalize(a)}
  /\ \A v \in OctVars \cup {n} : oct_get(b, v) = oct_get(a, v)

\* C23: wrapper values are value types under aliasing: once alias is a copy
\* of self, a mutator applied to self (assign, set, apply, +=, -=, |=,
\* forget, project, expand, rename) leaves the value of alias as it was,
\* because lock() gives self a payload of its own before the mutation.
C23_ValueSemantics ==
  [][(alias # NoHandle /\ alias' = alias) =>
       SameValue(heap[alias.norm_ref], heap'[alias.norm_ref])]_vars

\* A mutator has changed self while alias shared its payload: alias still
\* has the value from before the mutator, and self has a different one.
C23_Witness ==
  /\ last.op \notin {"none", "copy"}
  /\ alias # NoHandle
  /\ alias.norm_ref # self.norm_ref
  /\ heap[alias.norm_ref] = last.pre
  /\ ~oct_is_top(last.pre)
  /\ Norm # last.pre

----------------------------------------------------------------------------
(* operator+=(linear_constraint_t) for equalities and disequations on one   *)
(* variable.                                                                *)

\* The disequation c * v + k # 0 with c = 1 or c = -1
Diseq(c, v, k) == [c |-> c, v |-> v, k |-> k, disequation |-> TRUE]
is_disequation(cst) == "disequation" \in DOMAIN cst

\* interval <=
ILe(i, j) == IsBotI(i) \/ (~IsBotI(j) /\ BLe(j.lb, i.lb) /\ BLe(i.ub, j.ub))

\* linear_interval_solver_impl::trim_interval(i, [k, k])
trim_interval(i, k) ==
  IF IsBotI(i) THEN i
  ELSE IF i.lb = Fin(k) THEN MkI(Fin(k + 1), i.ub)
  ELSE IF i.ub = Fin(k) THEN MkI(i.lb, Fin(k - 1))
  ELSE i

\* add_univar_disequation, after the edge s -> d was written in g1
DiseqRepaired(o, g1, r) ==
  IF r.ok THEN [ok |-> TRUE, o |-> [o EXCEPT !.graph = g1,
                                             !.potential = r.potential]]
  ELSE [ok |-> FALSE, o |-> set_to_bottom(o)]
DiseqEdge(o, g1, s, d) ==
  DiseqRepaired(o, g1, repair_potential(g1, o.potential, s, d))

\* add_univar_disequation, the upper bound of new_i at the vertex p
DiseqUb(r, p, new_i) ==
  IF ~r.ok THEN r.o
  ELSE IF new_i.ub[1] = 0 /\ elem(r.o.graph, p + 1, p)
          /\ 2 * new_i.ub[2] < edge_val(r.o.graph, p + 1, p)
  THEN DiseqEdge(r.o, set_edge(r.o.graph, p + 1, 2 * new_i.ub[2], p),
                 p + 1, p).o
  ELSE r.o

\* add_univar_disequation, the lower bound of new_i at the vertex p
DiseqLb(o, p, new_i) ==
  IF new_i.lb[1] = 0 /\ elem(o.graph, p, p + 1)
     /\ 2 * (-new_i.lb[2]) < edge_val(o.graph, p, p + 1)
  THEN DiseqEdge(o, set_edge(o.graph, p, 2 * (-new_i.lb[2]), p + 1), p, p + 1)
  ELSE [ok |-> TRUE, o |-> o]

DiseqBounds(r, new_i) == DiseqUb(DiseqLb(r.o, r.vert, new_i), r.vert, new_i)

DiseqTrimmed(o, v, i, new_i) ==
  IF IsBotI(new_i) THEN set_to_bottom(o)
  ELSE IF ~IsTopI(new_i) /\ ILe(new_i, i) THEN DiseqBounds(get_vert(o, v), new_i)
  ELSE o

\* add_univar_disequation that leaves the value as it is.
add_univar_disequation_none(o, v, k) == o

\* add_univar_disequation(x, n)
add_univar_disequation(o, v, k) ==
  DiseqTrimmed(o, v, get_interval(o, v), trim_interval(get_interval(o, v), k))

\* add_disequation(e) for e = c * v + k: the residual of v is -k, and -k / c
\* is the singleton -k * c.
add_disequation(o, cst) == add_univar_disequation(o, cst.v, -cst.k * cst.c)

\* operator+=, the equality exp = 0: add_linear_leq(exp) and
\* add_linear_leq(-exp)
EquSecond(r, cst) ==
  IF ~r.ok THEN set_to_bottom(r.o)
  ELSE ConstraintAdded(add_linear_leq(r.o, Leq(-cst.c, cst.v, -cst.k)))
add_equality(o, cst) ==
  EquSecond(add_linear_leq(o, Leq(cst.c, cst.v, cst.k)), cst)

\* operator+=(linear_constraint_t)
AnyConstraintNormalized(o, cst) ==
  IF cst_is_tautology(cst) THEN o
  ELSE IF cst_is_contradiction(cst) THEN set_to_bottom(o)
  ELSE IF is_equality(cst) THEN add_equality(o, cst)
  ELSE IF is_disequation(cst) THEN add_disequation(o, cst)
  ELSE ConstraintAdded(add_linear_leq(o, cst))
oct_add_any_constraint(o, cst) ==
  IF o.is_bottom THEN o ELSE AnyConstraintNormalized(normalize(o), cst)

----------------------------------------------------------------------------
(* The loop of prog5 under a fixpoint iteration: k := 0; i := i0;           *)
(* while (i != K) { i := i + d; k := k + 1 }, with y for k and x for i.     *)
(* alias is the invariant of the loop head bb1 and self the state that the  *)
(* blocks transform.  At the head the iteration takes the join of the       *)
(* invariant and the state after bb2, or the widening of the invariant by   *)
(* that join.                                                               *)

MaxLoopOps == 70
LoopExits == {2, 9}
LoopStarts == {0, 2, 4}
LoopSteps == {1, -1}

LoopRec(op, pc) ==
  [op |-> op, pc |-> pc, k |-> last.k, d |-> last.d,
   pre |-> heap[self.norm_ref], head |-> heap[alias.norm_ref]]

InitLoopSpec ==
  /\ array_map = [a \in Arrays |-> {}]
  /\ inv = NumTop
  /\ index_map = [t \in {} |-> 0]
  /\ saved = [array_map |-> [a \in Arrays |-> {}], inv |-> NumTop]
  /\ heap = [r \in {1, 2} |-> OctTop]
  /\ self = [base_ref |-> Null, norm_ref |-> 1]
  /\ alias = [base_ref |-> Null, norm_ref |-> 2]
  /\ vfac = 0
  /\ \E k \in LoopExits, d \in LoopSteps :
       last = [op |-> "none", pc |-> "entry", k |-> k, d |-> d,
               pre |-> OctTop, head |-> OctTop]
  /\ nops = MaxLoopOps

\* A statement of a block: the mutator F on self.
LoopStmt(F(_), from, op, pc) ==
  /\ last.pc \in from
  /\ LatCommit("self", Locked("self"),
               F(Locked("self").heap[Locked("self").h.norm_ref]),
               LoopRec(op, pc))

\* entry: k := 0; i := i0
LoopEntryK ==
  LoopStmt(LAMBDA o : oct_assign(o, y, Const(0)), {"entry"}, "assign", "entry_k")
LoopEntryI(i0) ==
  LoopStmt(LAMBDA o : oct_assign(o, x, Const(i0)), {"entry_k"}, "assign",
           "after")

\* The invariant of bb1 becomes the state: alias = self.
LoopStore ==
  /\ last.pc \in {"after", "widened"}
  /\ nops > 0
  /\ nops' = nops - 1
  /\ alias' = self
  /\ heap' = Live(heap, <<self, self>>)
  /\ last' = LoopRec("store", "bb1")
  /\ UNCHANGED <<array_map, inv, index_map, saved, self, vfac>>

\* The state at the start of a successor of bb1: self = alias.
LoopCopy ==
  /\ last.pc \in {"bb1", "ret"}
  /\ nops > 0
  /\ nops' = nops - 1
  /\ self' = alias
  /\ heap' = Live(heap, <<alias, alias>>)
  /\ last' = LoopRec("copy", "in")
  /\ UNCHANGED <<array_map, inv, index_map, saved, alias, vfac>>

\* bb1_t: assume (i != K)
LoopAssumeNe ==
  LoopStmt(LAMBDA o : oct_add_any_constraint(o, Diseq(1, x, -last.k)),
           {"in"}, "assume_ne", "bb1_t")

\* bb1_f: assume (i == K)
LoopAssumeEq ==
  LoopStmt(LAMBDA o : oct_add_any_constraint(o, Equ(1, x, -last.k)),
           {"in"}, "assume_eq", "ret")

\* bb2: i := i + d; k := k + 1
LoopAddI ==
  LoopStmt(LAMBDA o : oct_apply(o, "OP_ADDITION", x, x, last.d),
           {"bb1_t"}, "add", "bb2_i")
LoopAddK ==
  LoopStmt(LAMBDA o : oct_apply(o, "OP_ADDITION", y, y, 1),
           {"bb2_i"}, "add", "bb2")

\* At bb1: self = alias | self
LoopJoin ==
  /\ last.pc = "bb2"
  /\ LatJoinOf(alias.norm_ref, self.norm_ref, LoopRec("join", "after"))

\* At bb1: self = alias || self
LoopWiden ==
  /\ last.pc = "after"
  /\ LatWidenOf(BaseRef(alias), self.norm_ref, LoopRec("widen", "widened"))

NextLoop ==
  \/ LoopEntryK
  \/ \E i0 \in LoopStarts : LoopEntryI(i0)
  \/ LoopStore
  \/ LoopCopy
  \/ LoopAssumeNe
  \/ LoopAssumeEq
  \/ LoopAddI
  \/ LoopAddK
  \/ LoopJoin
  \/ LoopWiden

SpecLoop == InitLoopSpec /\ [][NextLoop]_vars

\* The interval that x != k leaves of the interval i.
Trimmed(i, k) ==
  IF i.lb = Fin(k) /\ i.ub = Fin(k) THEN BotI
  ELSE IF i.lb = Fin(k) THEN [lb |-> Fin(k + 1), ub |-> i.ub]
  ELSE IF i.ub = Fin(k) THEN [lb |-> i.lb, ub |-> Fin(k - 1)]
  ELSE i

\* C24: adding x != k to a state where x has the interval [l, u] trims the
\* interval away from k: the lower bound becomes l + 1 when k = l < u, the
\* upper bound u - 1 when k = u > l, the state bottom when l = u = k, and the
\* interval stays when k is inside or outside; and the state at the exit of
\* while (i != K), after assume (i == K), has i = K.
C24_DisequationTrims ==
  /\ (last.op = "assume_ne" /\ ~last.pre.is_bottom) =>
       oct_get(Norm, x) = Trimmed(oct_get(normalize(last.pre), x), last.k)
  /\ (last.op = "assume_eq" /\ ~last.pre.is_bottom) =>
       oct_get(Norm, x) \in {ConstI(last.k), BotI}
  /\ (last.op = "assume_eq" /\ ~last.pre.is_bottom
        /\ ILe(ConstI(last.k), oct_get(normalize(last.pre), x))) =>
       oct_get(Norm, x) = ConstI(last.k)

\* In the loop with i0 = 0, d = 1 and K = 9 the invariant of the head has
\* reached i in [0, 9], and assume (i != 9) has trimmed it to [0, 8].
C24_Witness ==
  /\ last.op = "assume_ne"
  /\ last.k = 9
  /\ oct_get(normalize(last.pre), x) = [lb |-> Fin(0), ub |-> Fin(9)]
  /\ oct_get(Norm, x) = [lb |-> Fin(0), ub |-> Fin(8)]

----------------------------------------------------------------------------
(* add_linear_leq for a linear expression of several variables.  An         *)
(* expression is the sequence of its terms <<coefficient, variable>> in the *)
(* order of the variables, and its constant: the constraint is              *)
(* terms + k <= 0.                                                          *)

LinExp(ts, k) == [terms |-> ts, k |-> k]

\* A difference constraint x - y <= k, and a bound of v.
Diff(xv, yv, k) == [x |-> xv, y |-> yv, k |-> k]
Bnd(v, k) == [v |-> v, k |-> k]
NoDiffs == [csts |-> <<>>, lbs |-> <<>>, ubs |-> <<>>]

\* diffcsts_of_lin_leq, the state of the loop over the terms: fin after
\* goto diffcst_finish.
DiffStart(k) ==
  [fin |-> FALSE, lbvar |-> NoVar, lbcoeff |-> 0, ubvar |-> NoVar,
   ubcoeff |-> 0, exp_ub |-> -k, pos |-> <<>>, neg |-> <<>>]

\* diffcsts_of_lin_leq, a term with a positive coefficient c; lb is the
\* lower bound of its variable.
DiffPos(acc, c, v, lb) ==
  IF lb[1] # 0
  THEN (IF acc.lbvar # NoVar THEN [acc EXCEPT !.fin = TRUE]
        ELSE [acc EXCEPT !.lbvar = v, !.lbcoeff = c])
  ELSE [acc EXCEPT !.exp_ub = @ - lb[2] * c,
                   !.pos = Append(@, [c |-> c, v |-> v, b |-> lb[2]])]

\* diffcsts_of_lin_leq, a term with a negative coefficient c; ub is the
\* upper bound of its variable.
DiffNeg(acc, c, v, ub) ==
  IF ub[1] # 0
  THEN (IF acc.ubvar # NoVar THEN [acc EXCEPT !.fin = TRUE]
        ELSE [acc EXCEPT !.ubvar = v, !.ubcoeff = -c])
  ELSE [acc EXCEPT !.exp_ub = @ - ub[2] * c,
                   !.neg = Append(@, [c |-> -c, v |-> v, b |-> ub[2]])]

DiffTerm(o, acc, t) ==
  IF acc.fin THEN acc
  ELSE IF t[1] > 0 THEN DiffPos(acc, t[1], t[2], oct_get(o, t[2]).lb)
  ELSE DiffNeg(acc, t[1], t[2], oct_get(o, t[2]).ub)

RECURSIVE DiffTerms(_, _, _)
DiffTerms(o, acc, ts) ==
  IF ts = <<>> THEN acc
  ELSE DiffTerms(o, DiffTerm(o, acc, Head(ts)), Tail(ts))

\* diffcsts_of_lin_leq, after the loop: the difference constraints and the
\* bounds.
DiffsBounded(a) ==
  [csts |-> [j \in 1 .. Len(a.neg) * Len(a.pos) |->
               Diff(a.pos[((j - 1) % Len(a.pos)) + 1].v,
                    a.neg[((j - 1) \div Len(a.pos)) + 1].v,
                    a.exp_ub - a.neg[((j - 1) \div Len(a.pos)) + 1].b
                             + a.pos[((j - 1) % Len(a.pos)) + 1].b)],
   lbs |-> [i \in 1 .. Len(a.neg) |->
              Bnd(a.neg[i].v, TDiv(-a.exp_ub, a.neg[i].c) + a.neg[i].b)],
   ubs |-> [i \in 1 .. Len(a.pos) |->
              Bnd(a.pos[i].v, TDiv(a.exp_ub, a.pos[i].c) + a.pos[i].b)]]
DiffsLbVar(a) ==
  [csts |-> IF a.lbcoeff = 1
            THEN [i \in 1 .. Len(a.neg) |->
                    Diff(a.lbvar, a.neg[i].v, a.exp_ub - a.neg[i].b)]
            ELSE <<>>,
   lbs |-> <<>>,
   ubs |-> <<Bnd(a.lbvar, TDiv(a.exp_ub, a.lbcoeff))>>]
DiffsUbVar(a) ==
  [csts |-> IF a.ubcoeff = 1
            THEN [i \in 1 .. Len(a.pos) |->
                    Diff(a.pos[i].v, a.ubvar, a.exp_ub + a.pos[i].b)]
            ELSE <<>>,
   lbs |-> <<Bnd(a.ubvar, TDiv(-a.exp_ub, a.ubcoeff))>>,
   ubs |-> <<>>]
DiffsOf(a) ==
  IF a.fin THEN NoDiffs
  ELSE IF a.lbvar # NoVar /\ a.ubvar # NoVar
  THEN (IF a.lbcoeff # 1 \/ a.ubcoeff # 1 THEN NoDiffs
        ELSE [NoDiffs EXCEPT !.csts = <<Diff(a.lbvar, a.ubvar, a.exp_ub)>>])
  ELSE IF a.lbvar # NoVar THEN DiffsLbVar(a)
  ELSE IF a.ubvar # NoVar THEN DiffsUbVar(a)
  ELSE DiffsBounded(a)

\* diffcsts_of_lin_leq(exp, csts, lbs, ubs)
diffcsts_of_lin_leq(o, e) == DiffsOf(DiffTerms(o, DiffStart(e.k), e.terms))

\* close_over_edge, the bounds that follow from the edge s -> d of weight
\* wt: the bound of d through the edge comp(d) -> s and the bound of s
\* through the edge d -> comp(s).
InlineSecond(g, s, d, wt) ==
  IF elem(g, d, comp(s))
  THEN update_edge(g, s, edge_val(g, d, comp(s)) + wt, comp(s)) ELSE g
InlineBounds(g, s, d, wt) ==
  InlineSecond(IF elem(g, comp(d), s)
               THEN update_edge(g, comp(d), edge_val(g, comp(d), s) + wt, d)
               ELSE g,
               s, d, wt)

\* lookup in the split view
ViewElem(g, s, d) == s \div 2 # d \div 2 /\ elem(g, s, d)

\* close_over_edge, the loop over the predecessors se of ii in the split
\* view: r is the graph and src_dec.
RECURSIVE CloseSrc(_, _, _, _, _)
CloseSrcAt(r, ii, jj, c, todo, se, wt) ==
  IF se = jj \/ (ViewElem(r.g, se, jj) /\ edge_val(r.g, se, jj) <= wt)
  THEN CloseSrc(r, ii, jj, c, todo \ {se})
  ELSE CloseSrc([g |-> InlineBounds(set_edge(r.g, se, wt, jj), se, jj, wt),
                 dec |-> Append(r.dec, <<se, wt - c>>)],
                ii, jj, c, todo \ {se})
CloseSrcNext(r, ii, jj, c, todo, se) ==
  CloseSrcAt(r, ii, jj, c, todo, se, edge_val(r.g, se, ii) + c)
CloseSrc(r, ii, jj, c, todo) ==
  IF todo = {} THEN r ELSE CloseSrcNext(r, ii, jj, c, todo, SetMin(todo))

\* close_over_edge, the loop over the successors de of jj in the split view:
\* r is the graph and dest_dec.
RECURSIVE CloseDest(_, _, _, _, _)
CloseDestAt(r, ii, jj, c, todo, de, wt) ==
  IF de = ii \/ (ViewElem(r.g, ii, de) /\ edge_val(r.g, ii, de) <= wt)
  THEN CloseDest(r, ii, jj, c, todo \ {de})
  ELSE CloseDest([g |-> InlineBounds(set_edge(r.g, ii, wt, de), ii, de, wt),
                  dec |-> Append(r.dec, <<de, wt - c>>)],
                 ii, jj, c, todo \ {de})
CloseDestNext(r, ii, jj, c, todo, de) ==
  CloseDestAt(r, ii, jj, c, todo, de, edge_val(r.g, jj, de) + c)
CloseDest(r, ii, jj, c, todo) ==
  IF todo = {} THEN r ELSE CloseDestNext(r, ii, jj, c, todo, SetMin(todo))

\* close_over_edge, the loop over src_dec and dest_dec: the edge se -> de of
\* the path through ii -> jj.
ClosePair(g, se, de, wt) ==
  IF elem(g, se, de) /\ edge_val(g, se, de) <= wt THEN g
  ELSE InlineBounds(set_edge(g, se, wt, de), se, de, wt)
RECURSIVE ClosePairs(_, _, _, _, _)
ClosePairs(g, c, src_dec, dest_dec, j) ==
  IF j > Len(src_dec) * Len(dest_dec) THEN g
  ELSE ClosePairs(ClosePair(g, src_dec[((j - 1) \div Len(dest_dec)) + 1][1],
                            dest_dec[((j - 1) % Len(dest_dec)) + 1][1],
                            c + src_dec[((j - 1) \div Len(dest_dec)) + 1][2]
                              + dest_dec[((j - 1) % Len(dest_dec)) + 1][2]),
                  c, src_dec, dest_dec, j + 1)

CloseThird(rs, rd, c) == ClosePairs(rd.g, c, rs.dec, rd.dec, 1)
CloseSecond(rs, ii, jj, c) ==
  CloseThird(rs, CloseDest([g |-> rs.g, dec |-> <<>>], ii, jj, c,
                           succs(SplitGraph(rs.g), jj)),
             c)
CloseFirst(g, ii, jj, c) ==
  CloseSecond(CloseSrc([g |-> g, dec |-> <<>>], ii, jj, c,
                       preds(SplitGraph(g), ii)),
              ii, jj, c)

\* close_over_edge(ii, jj)
close_over_edge(g, ii, jj) ==
  CloseFirst(InlineBounds(g, ii, jj, edge_val(g, ii, jj)), ii, jj,
             edge_val(g, ii, jj))


\* add_linear_leq, one difference constraint x - y <= k: the edges
\* src -> dest and dest + 1 -> src + 1 for src the vertex of y and dest the
\* vertex of x, the potentials, and the closure over both edges.
DiffClosed(o, src, dest) ==
  [ok |-> TRUE,
   o |-> [o EXCEPT !.graph = close_over_edge(close_over_edge(@, src, dest),
                                             dest + 1, src + 1)]]
\* The edges of a difference constraint written without repair_potential.
DiffEdgesUnrepaired(o, src, dest, k) ==
  DiffClosed([o EXCEPT !.graph = update_edge(update_edge(@, src, k, dest),
                                             dest + 1, k, src + 1)],
             src, dest)

DiffSecond(r, src, dest) == IF r.ok THEN DiffClosed(r.o, src, dest) ELSE r
DiffFirst(r, src, dest) ==
  IF r.ok
  THEN DiffSecond(CloseBoundEdge(r.o, r.o.graph, dest + 1, src + 1), src, dest)
  ELSE r
DiffEdges(o, src, dest, k) ==
  DiffFirst(CloseBoundEdge(o, update_edge(update_edge(o.graph, src, k, dest),
                                          dest + 1, k, src + 1),
                           src, dest),
            src, dest)
DiffDest(src, rd, k) == DiffEdges(rd.o, src, rd.vert, k)
DiffSrc(rs, d) == DiffDest(rs.vert, get_vert(rs.o, d.x), d.k)
add_diffcst(o, d) == DiffSrc(get_vert(o, d.y), d)

\* add_linear_leq, the three loops: each stops at the first failure.
RECURSIVE AddLbs(_, _)
AddLbs(r, lbs) ==
  IF ~r.ok \/ lbs = <<>> THEN r
  ELSE AddLbs(add_lb(r.o, Head(lbs).v, Head(lbs).k), Tail(lbs))
RECURSIVE AddUbs(_, _)
AddUbs(r, ubs) ==
  IF ~r.ok \/ ubs = <<>> THEN r
  ELSE AddUbs(add_ub(r.o, Head(ubs).v, Head(ubs).k), Tail(ubs))
RECURSIVE AddDiffs(_, _)
AddDiffs(r, csts) ==
  IF ~r.ok \/ csts = <<>> THEN r
  ELSE AddDiffs(add_diffcst(r.o, Head(csts)), Tail(csts))

\* add_linear_leq(exp)
LinLeqDiffs(o, ds) ==
  AddDiffs(AddUbs(AddLbs([ok |-> TRUE, o |-> o], ds.lbs), ds.ubs), ds.csts)
LinLeqNormalized(o, e) == LinLeqDiffs(o, diffcsts_of_lin_leq(o, e))
add_linear_leq_exp(o, e) == LinLeqNormalized(normalize(o), e)

\* -exp
NegExp(e) ==
  LinExp([i \in 1 .. Len(e.terms) |-> <<-e.terms[i][1], e.terms[i][2]>>], -e.k)

\* A linear constraint exp <= 0 or exp = 0.
LinCons(e, rel) == [e |-> e, rel |-> rel]

\* operator+=(linear_constraint_t) for an inequality or an equality over a
\* linear expression
LinEquSecond(r, e) ==
  IF ~r.ok THEN set_to_bottom(r.o)
  ELSE ConstraintAdded(add_linear_leq_exp(r.o, NegExp(e)))
lin_is_tautology(c) ==
  c.e.terms = <<>> /\ (IF c.rel = "<=" THEN c.e.k <= 0 ELSE c.e.k = 0)
lin_is_contradiction(c) ==
  c.e.terms = <<>> /\ ~(IF c.rel = "<=" THEN c.e.k <= 0 ELSE c.e.k = 0)
LinConsNormalized(o, c) ==
  IF lin_is_tautology(c) THEN o
  ELSE IF lin_is_contradiction(c) THEN set_to_bottom(o)
  ELSE IF c.rel = "<=" THEN ConstraintAdded(add_linear_leq_exp(o, c.e))
  ELSE LinEquSecond(add_linear_leq_exp(o, c.e), c.e)
oct_add_lincons(o, c) ==
  IF o.is_bottom THEN o ELSE LinConsNormalized(normalize(o), c)


----------------------------------------------------------------------------
(* Contradicting constraints: linear inequalities and equalities over x and *)
(* y added to the wrapper values self and alias, both top at first, and the *)
(* meet of the two.                                                         *)

MaxContraOps == 4
ContraCsts ==
  {LinCons(LinExp(<<>>, 1), "<="),
   LinCons(LinExp(<< <<1, x>> >>, 0), "<="),
   LinCons(LinExp(<< <<-1, x>> >>, 1), "<="),
   LinCons(LinExp(<< <<-1, y>> >>, 5), "<="),
   LinCons(LinExp(<< <<-1, x>>, <<1, y>> >>, 0), "<="),
   LinCons(LinExp(<< <<1, x>>, <<-1, y>> >>, 1), "<="),
   LinCons(LinExp(<< <<1, x>> >>, -3), "=="),
   LinCons(LinExp(<< <<1, x>>, <<-1, y>> >>, 0), "==")}

ContraRec(op, t, c, left, right) ==
  [op |-> op, target |-> t, cst |-> c, pre |-> heap[Handle(t).norm_ref],
   left |-> left, right |-> right]

InitContra ==
  /\ array_map = [a \in Arrays |-> {}]
  /\ inv = NumTop
  /\ index_map = [t \in {} |-> 0]
  /\ saved = [array_map |-> [a \in Arrays |-> {}], inv |-> NumTop]
  /\ heap = [r \in {1, 2} |-> OctTop]
  /\ self = [base_ref |-> Null, norm_ref |-> 1]
  /\ alias = [base_ref |-> Null, norm_ref |-> 2]
  /\ vfac = 0
  /\ last = [op |-> "none", target |-> "self",
             cst |-> LinCons(LinExp(<<>>, 0), "<="), pre |-> OctTop,
             left |-> OctTop, right |-> OctTop]
  /\ nops = MaxContraOps

\* operator+=(cst) on the wrapper value t
ContraAdd(t, c) ==
  LatCommit(t, Locked(t),
            oct_add_lincons(Locked(t).heap[Locked(t).h.norm_ref], c),
            ContraRec("add", t, c, OctTop, OctTop))

\* self = left & right
ContraMeet(order) ==
  LatMeetOf(LeftOf(order).norm_ref, RightOf(order).norm_ref,
            ContraRec("meet", "self", LinCons(LinExp(<<>>, 0), "<="),
                      heap[LeftOf(order).norm_ref],
                      heap[RightOf(order).norm_ref]))

NextContra ==
  \/ \E t \in LatTargets, c \in ContraCsts : ContraAdd(t, c)
  \/ \E order \in LatOrders : ContraMeet(order)

SpecContra == InitContra /\ [][NextContra]_vars

\* The valuations of x and y in a box that holds a point of every
\* satisfiable set of the constraints above.
ContraVals == -1 .. 6
Points == [OctVars -> ContraVals]

\* The valuation m satisfies every constraint of the value o: an edge
\* s -> d of weight w is s_d - s_s <= w.
VertVal(o, m, v) == SignOf(v) * m[o.rev_map[v]]
InGamma(o, m) ==
  /\ ~o.is_bottom
  /\ \A e \in DOMAIN o.graph.E :
       (o.rev_map[e[1]] # NoVar /\ o.rev_map[e[2]] # NoVar) =>
         VertVal(o, m, e[2]) - VertVal(o, m, e[1]) <= o.graph.E[e]

\* The valuation m satisfies the constraint c.
RECURSIVE ExpVal(_, _)
ExpVal(ts, m) ==
  IF ts = <<>> THEN 0 ELSE Head(ts)[1] * m[Head(ts)[2]] + ExpVal(Tail(ts), m)
SatCons(c, m) ==
  IF c.rel = "<=" THEN ExpVal(c.e.terms, m) + c.e.k <= 0
  ELSE ExpVal(c.e.terms, m) + c.e.k = 0

\* The value that the last operation has written.
ContraRes == heap[Handle(last.target).norm_ref]

\* C25: a state to which a linear inequality or equality is added that no
\* valuation of its constraints satisfies is bottom afterwards, and the meet
\* of two states whose constraints no valuation satisfies together is
\* bottom.
C25_ContradictionIsBottom ==
  /\ (last.op = "add" /\
      \A m \in Points : ~(InGamma(last.pre, m) /\ SatCons(last.cst, m)))
       => ContraRes.is_bottom
  /\ (last.op = "meet" /\
      \A m \in Points : ~(InGamma(last.left, m) /\ InGamma(last.right, m)))
       => ContraRes.is_bottom

\* y - x <= 0 added to a state with x <= 0 and y >= 5 has given bottom.
C25_Witness ==
  /\ last.op = "add"
  /\ last.cst = LinCons(LinExp(<< <<-1, x>>, <<1, y>> >>, 0), "<=")
  /\ ~last.pre.is_bottom
  /\ oct_get(last.pre, x) = MkI(MInf, Fin(0))
  /\ oct_get(last.pre, y) = MkI(Fin(5), PInf)
  /\ ContraRes.is_bottom


----------------------------------------------------------------------------
(* get_overlap_cells on the offset maps that the array expansion domain     *)
(* holds after stores, loads, copies and joins.                             *)

OverlapOffsets == 0 .. 3
OverlapSizes == 1 .. 3

\* The cells of m whose byte range intersects [o, o + size - 1], except the
\* cell (o, size).
IntersectingCells(m, o, size) ==
  {c \in m : Intersects(c.o, c.s, o, size) /\ ~(c.o = o /\ c.s = size)}

\* C26: get_overlap_cells(o, size) returns all cells of the map whose byte
\* range intersects [o, o + size - 1], except a cell equal to (o, size), for
\* every offset map that the domain holds, and leaves the map as it was.
C26_OverlapCellsComplete ==
  \A a \in Arrays, o \in OverlapOffsets, size \in OverlapSizes :
    /\ get_overlap_cells(array_map[a], o, size).out =
         IntersectingCells(array_map[a], o, size)
    /\ get_overlap_cells(array_map[a], o, size).map = array_map[a]

\* A join has produced an offset map with two cells that overlap each other.
C26_Witness ==
  /\ last.op = "join"
  /\ \E a \in Arrays : \E c, d \in array_map[a] :
       ~CellEq(c, d) /\ Intersects(c.o, c.s, d.o, d.s)


----------------------------------------------------------------------------
(* is_unsat(cst) of SplitOCT_ and of array_sgraph_domain_traits.  The       *)
(* constraint exp <= 0 with exp = terms + k is terms <= -k, and -k is its   *)
(* constant().                                                              *)

cst_constant(c) == -c.e.k

\* get_vert of the variable va and then of the variable vb
VertsSecond(ra, rb) == [a |-> ra.vert, b |-> rb.vert, o |-> rb.o]
VertsFirst(ra, vb) == VertsSecond(ra, get_vert(ra.o, vb))
get_verts(o, va, vb) == VertsFirst(get_vert(o, va), vb)

\* diffcst_of_leq, the end: i and j are swapped when i > j, and the result
\* is (j, (i, cst.constant())).
Diffcst(i, j, k, o) ==
  [some |-> TRUE, x |-> IF i > j THEN i ELSE j, y |-> IF i > j THEN j ELSE i,
   k |-> k, o |-> o]
DiffcstUb(r, k) == Diffcst(r.vert, r.vert + 1, k, r.o)
DiffcstLb(r, k) == Diffcst(r.vert + 1, r.vert, k, r.o)
DiffcstOf(p, di, dj, k) == Diffcst(p.a + di, p.b + dj, k, p.o)

\* diffcst_of_leq(cst)
diffcst_of_leq(o, c) ==
  IF Len(c.e.terms) = 1 /\ c.e.terms[1][1] = 1
  THEN DiffcstUb(get_vert(o, c.e.terms[1][2]), cst_constant(c))
  ELSE IF Len(c.e.terms) = 1 /\ c.e.terms[1][1] = -1
  THEN DiffcstLb(get_vert(o, c.e.terms[1][2]), cst_constant(c))
  ELSE IF Len(c.e.terms) = 2 /\ c.e.terms[1][1] = 1 /\ c.e.terms[2][1] = -1
  THEN DiffcstOf(get_verts(o, c.e.terms[1][2], c.e.terms[2][2]), 0, 0,
                 cst_constant(c))
  ELSE IF Len(c.e.terms) = 2 /\ c.e.terms[1][1] = -1 /\ c.e.terms[2][1] = 1
  THEN DiffcstOf(get_verts(o, c.e.terms[2][2], c.e.terms[1][2]), 0, 0,
                 cst_constant(c))
  ELSE IF Len(c.e.terms) = 2 /\ c.e.terms[1][1] = 1 /\ c.e.terms[2][1] = 1
  THEN DiffcstOf(get_verts(o, c.e.terms[1][2], c.e.terms[2][2]), 0, 1,
                 cst_constant(c))
  ELSE IF Len(c.e.terms) = 2 /\ c.e.terms[1][1] = -1 /\ c.e.terms[2][1] = -1
  THEN DiffcstOf(get_verts(o, c.e.terms[2][2], c.e.terms[1][2]), 1, 0,
                 cst_constant(c))
  ELSE [some |-> FALSE, x |-> 0, y |-> 0, k |-> 0, o |-> o]

\* is_unsat, the interval taken for the vertex v: on an even v its lower
\* bound is minus the weight of v + 1 -> v and its upper bound the weight of
\* v -> v + 1, on an odd v minus the weight of v -> v - 1 and the weight of
\* v - 1 -> v, all halved.
UnsatInterval(g, v) ==
  IF v % 2 = 0
  THEN [lb |-> IF elem(g, v + 1, v)
               THEN Fin(TDiv(-edge_val(g, v + 1, v), 2)) ELSE MInf,
        ub |-> IF elem(g, v, v + 1)
               THEN Fin(TDiv(edge_val(g, v, v + 1), 2)) ELSE PInf]
  ELSE [lb |-> IF elem(g, v, v - 1)
               THEN Fin(TDiv(-edge_val(g, v, v - 1), 2)) ELSE MInf,
        ub |-> IF elem(g, v - 1, v)
               THEN Fin(TDiv(edge_val(g, v - 1, v), 2)) ELSE PInf]

\* !((intv_y - intv_x).lb() <= k)
UnsatByIntervals(ix, iy, k) ==
  IF IsTopI(ix) \/ IsTopI(iy) THEN FALSE
  ELSE IF iy.lb[1] # 0 \/ ix.ub[1] # 0 THEN FALSE
  ELSE ~(iy.lb[2] - ix.ub[2] <= k)

\* is_unsat, after diffcst_of_leq
UnsatOf(d) ==
  [res |-> IF ~d.some THEN FALSE
           ELSE IF elem(d.o.graph, d.y, d.x)
           THEN edge_val(d.o.graph, d.y, d.x) + d.k < 0
           ELSE UnsatByIntervals(UnsatInterval(d.o.graph, d.x),
                                 UnsatInterval(d.o.graph, d.y), d.k),
   o |-> d.o]

\* SplitOCT_::is_unsat(cst): the answer and the value afterwards
is_unsat(o, c) ==
  IF o.is_bottom \/ lin_is_contradiction(c) THEN [res |-> TRUE, o |-> o]
  ELSE IF oct_is_top(o) \/ lin_is_tautology(c) THEN [res |-> FALSE, o |-> o]
  ELSE IF c.rel # "<=" THEN [res |-> FALSE, o |-> o]
  ELSE UnsatOf(diffcst_of_leq(o, c))

\* array_sgraph_domain_traits::is_unsat(inv, cst)
traits_is_unsat(o, c) == oct_add_lincons(copy_ctor(o), c).is_bottom


MaxUnsatOps == 4
UnsatIntervals == {MkI(Fin(3), Fin(5)), MkI(MInf, Fin(0))}
UnsatCsts ==
  {LinCons(LinExp(<< <<1, x>>, <<-1, y>> >>, 0), "<="),
   LinCons(LinExp(<< <<-1, x>>, <<1, y>> >>, 1), "<=")}
UnsatQueries ==
  {LinCons(LinExp(<< <<1, x>> >>, -4), "<="),
   LinCons(LinExp(<< <<-1, x>> >>, 1), "<="),
   LinCons(LinExp(<< <<1, x>>, <<-1, y>> >>, 0), "<="),
   LinCons(LinExp(<< <<-1, x>>, <<1, y>> >>, 0), "<="),
   LinCons(LinExp(<< <<1, x>>, <<-1, y>> >>, 1), "<="),
   LinCons(LinExp(<< <<1, x>>, <<1, y>> >>, 0), "<=")}

UnsatRec(op, t, c, res) ==
  [op |-> op, target |-> t, cst |-> c, pre |-> heap[Handle(t).norm_ref],
   res |-> res]

InitUnsat ==
  /\ array_map = [a \in Arrays |-> {}]
  /\ inv = NumTop
  /\ index_map = [t \in {} |-> 0]
  /\ saved = [array_map |-> [a \in Arrays |-> {}], inv |-> NumTop]
  /\ heap = [r \in {1, 2} |-> OctTop]
  /\ self = [base_ref |-> Null, norm_ref |-> 1]
  /\ alias = [base_ref |-> Null, norm_ref |-> 2]
  /\ vfac = 0
  /\ last = [op |-> "none", target |-> "self",
             cst |-> LinCons(LinExp(<<>>, 0), "<="), pre |-> OctTop,
             res |-> FALSE]
  /\ nops = MaxUnsatOps

\* set(v, intv) on the wrapper value t
UnsatSet(t, v, intv) ==
  LatCommit(t, Locked(t),
            oct_set(Locked(t).heap[Locked(t).h.norm_ref], v, intv),
            UnsatRec("set", t, LinCons(LinExp(<<>>, 0), "<="), FALSE))

\* operator+=(cst) on the wrapper value t
UnsatAdd(t, c) ==
  LatCommit(t, Locked(t),
            oct_add_lincons(Locked(t).heap[Locked(t).h.norm_ref], c),
            UnsatRec("add", t, c, FALSE))

\* is_unsat(cst) on the wrapper value t: lock(), then is_unsat of norm()
UnsatQueried(t, c, r) ==
  LatCommit(t, Locked(t), r.o, UnsatRec("is_unsat", t, c, r.res))
UnsatQuery(t, c) ==
  UnsatQueried(t, c, is_unsat(Locked(t).heap[Locked(t).h.norm_ref], c))

NextUnsat ==
  \/ \E t \in LatTargets, v \in OctVars, intv \in UnsatIntervals :
       UnsatSet(t, v, intv)
  \/ \E t \in LatTargets, c \in UnsatCsts : UnsatAdd(t, c)
  \/ \E t \in LatTargets, c \in UnsatQueries : UnsatQuery(t, c)

SpecUnsat == InitUnsat /\ [][NextUnsat]_vars

\* The edges of a value by the variables of their vertices: the vertices of
\* the variable v are get_vert(v) and get_vert(v) + 1.
SignedEdges(o) ==
  {<<u, i, v, j, edge_val(o.graph, o.vert_map[u][1] + i, o.vert_map[v][1] + j)>> :
     <<u, i, v, j>> \in
       {q \in (DOMAIN o.vert_map) \X {0, 1} \X (DOMAIN o.vert_map) \X {0, 1} :
          elem(o.graph, o.vert_map[q[1]][1] + q[2], o.vert_map[q[3]][1] + q[4])}}

\* Two values are one abstract value: both bottom, or the same edges between
\* the vertices of the same variables once normalized.
SameAbstractValue(a, b) ==
  IF a.is_bottom \/ b.is_bottom THEN a.is_bottom = b.is_bottom
  ELSE /\ normalize(a).is_bottom = normalize(b).is_bottom
       /\ SignedEdges(normalize(a)) = SignedEdges(normalize(b))

\* C27: is_unsat(cst) is true only if adding cst to a copy of the state gives
\* bottom, and two states that are one abstract value give the same answer
\* for every cst, whatever the vertices of their variables are.
C27_IsUnsatSound ==
  /\ (last.op = "is_unsat" /\ last.res) => traits_is_unsat(last.pre, last.cst)
  /\ SameAbstractValue(heap[self.norm_ref], heap[alias.norm_ref]) =>
       \A c \in UnsatQueries :
         is_unsat(heap[self.norm_ref], c).res =
           is_unsat(heap[alias.norm_ref], c).res

\* is_unsat has answered true on a state that is neither bottom nor top.
C27_Witness ==
  /\ last.op = "is_unsat"
  /\ last.res
  /\ ~last.pre.is_bottom
  /\ ~oct_is_top(last.pre)


----------------------------------------------------------------------------
(* project: SplitOCT_::project on the wrapper value self, and the generic   *)
(* domain_traits::project on the value inv of the domain of intervals.      *)

MaxProjOps == 4
ProjRanges == {<<>>, <<x>>, <<y>>, <<x, y>>}
ProjInterval == MkI(Fin(0), Fin(5))

\* domain_traits<Domain>::project(inv, begin, end): res = top, then
\* res.set(v, inv[v]) for every v of the range
RECURSIVE ProjectInto(_, _, _)
ProjectInto(res, d, range) ==
  IF range = <<>> THEN res
  ELSE ProjectInto(NumSet(res, Head(range), NumGet(d, Head(range))), d,
                   Tail(range))
traits_project(d, range) == ProjectInto(NumTop, d, range)

ProjRec(op, range) ==
  [op |-> op, range |-> range, pre |-> Norm, pre_inv |-> inv]

InitProject ==
  /\ InitOct
  /\ last = [op |-> "none", range |-> <<>>, pre |-> OctTop, pre_inv |-> NumTop]
  /\ nops = MaxProjOps

ProjOctStep(F(_), op, range) ==
  /\ Mutate(F, ProjRec(op, range))
  /\ UNCHANGED vfac
ProjNumStep(d, op, range) ==
  /\ nops > 0
  /\ nops' = nops - 1
  /\ inv' = d
  /\ last' = ProjRec(op, range)
  /\ UNCHANGED <<array_map, index_map, saved, heap, self, alias, vfac>>

ProjOctSet(v) ==
  ProjOctStep(LAMBDA o : oct_set(o, v, ProjInterval), "set", <<>>)
ProjOctAssign(v, u) ==
  ProjOctStep(LAMBDA o : oct_assign(o, v, [k |-> 1, v |-> u]), "assign", <<>>)
ProjOctAssume(v) ==
  ProjOctStep(LAMBDA o : oct_add_constraint(o, Leq(1, v, 1)), "assume", <<>>)
ProjOct(range) ==
  ProjOctStep(LAMBDA o : oct_project(o, range), "project", range)
ProjNumSet(v) == ProjNumStep(NumSet(inv, v, ProjInterval), "set", <<>>)
ProjNumAssume(v) == ProjNumStep(NumAssumeLeq(inv, v, -1), "assume", <<>>)
ProjNum(range) ==
  ProjNumStep(traits_project(inv, range), "traits_project", range)

NextProject ==
  \/ \E v \in OctVars : ProjOctSet(v)
  \/ ProjOctAssign(x, y)
  \/ \E v \in OctVars : ProjOctAssume(v)
  \/ \E range \in ProjRanges : ProjOct(range)
  \/ \E v \in OctVars : ProjNumSet(v)
  \/ \E v \in OctVars : ProjNumAssume(v)
  \/ \E range \in ProjRanges : ProjNum(range)

SpecProject == InitProject /\ [][NextProject]_vars

InRange(range) == {range[i] : i \in 1 .. Len(range)}

\* The variable v of the value o has no edge to or from another vertex.
Unrelated(o, v) ==
  \/ v \notin DOMAIN o.vert_map
  \/ \A e \in DOMAIN o.graph.E :
       {e[1], e[2]} \cap {o.vert_map[v][1], o.vert_map[v][1] + 1} = {}

\* C28: project(inv, range) forgets all variables except those of range:
\* afterwards every variable outside range has the interval top and no
\* relation, every variable of range has the interval it had, and a bottom
\* state is still bottom; for SplitOCT_::project and for the generic
\* domain_traits::project, and for every range, also the empty one.
C28_Project ==
  /\ last.op = "project" =>
       IF last.pre.is_bottom THEN Norm.is_bottom
       ELSE /\ \A v \in OctVars \ InRange(last.range) :
                 oct_get(Norm, v) = TopI /\ Unrelated(Norm, v)
            /\ \A v \in InRange(last.range) :
                 oct_get(Norm, v) = oct_get(normalize(last.pre), v)
  /\ last.op = "traits_project" =>
       IF last.pre_inv.is_bottom THEN inv.is_bottom
       ELSE /\ \A v \in OctVars \ InRange(last.range) : NumGet(inv, v) = TopI
            /\ \A v \in InRange(last.range) :
                 NumGet(inv, v) = NumGet(last.pre_inv, v)

\* project onto x was applied to a state in which x and y are bounded and
\* related.
C28_Witness ==
  /\ last.op = "project"
  /\ last.range = <<x>>
  /\ ~last.pre.is_bottom
  /\ oct_get(normalize(last.pre), y) # TopI
  /\ ~Unrelated(normalize(last.pre), y)
  /\ oct_get(Norm, x) = oct_get(normalize(last.pre), x)
  /\ oct_get(Norm, y) = TopI


----------------------------------------------------------------------------
(* assign(x, e) without special_assign (SimpleParams): the edges of the     *)
(* difference constraints are added one by one, each followed by            *)
(* repair_potential and close_over_edge.                                    *)

\* assign, the new vertices v and w of the assigned variable with the
\* potential 0
GenericSecondVert(o, v, a, n2) == NewAssignVerts(o, v, 0, <<a, n2.v>>, n2.g)
GenericFirstVert(o, v, n1) == GenericSecondVert(o, v, n1.v, new_vertex(n1.g))
GenericVerts(o, v) == GenericFirstVert(o, v, new_vertex(o.graph))

\* assign, one edge of cst_edges: update_edge, repair_potential and
\* close_over_edge.  A failure of repair_potential gives bottom.
GenericClosed(r, s, d) ==
  IF r.ok THEN [ok |-> TRUE, o |-> [r.o EXCEPT !.graph = close_over_edge(@, s, d)]]
  ELSE r
GenericEdge(r, s, d, w) ==
  IF ~r.ok THEN r
  ELSE GenericClosed(CloseBoundEdge(r.o, update_edge(r.o.graph, s, w, d), s, d),
                     s, d)

\* assign, the bounds of x_int written on the edges between pv and pw.
GenericLb(g, pv, pw, lb) ==
  IF lb[1] = 0 THEN update_edge(g, pv, -lb[2], pw) ELSE g
GenericUb(g, pv, pw, ub) ==
  IF ub[1] = 0 THEN update_edge(g, pw, ub[2], pv) ELSE g

\* assign, after the loop over cst_edges
GenericBounds(r, v, pv, pw, x_int) ==
  IF ~r.ok THEN r.o
  ELSE AssignEnter(
         oct_forget([r.o EXCEPT !.graph = GenericUb(GenericLb(@, pv, pw, x_int.lb),
                                                    pv, pw, x_int.ub)],
                    v),
         v, pv, pw)

\* assign, with the new vertices nv and the vertex gy of y: cst_edges holds
\* the edge of diffs_lb and then the edge of diffs_ub.
GenericEdges(gy, nv, v, x_int, diffs) ==
  GenericBounds(
    GenericEdge(GenericEdge([ok |-> TRUE, o |-> gy.o], nv.v, gy.vert,
                            -(CHOOSE p \in diffs.lb : TRUE)[2]),
                gy.vert, nv.v, (CHOOSE p \in diffs.ub : TRUE)[2]),
    v, nv.v, nv.w, x_int)

GenericVar(nv, v, e, x_int, diffs) ==
  GenericEdges(get_vert(nv.o, e.v), nv, v, x_int, diffs)

GenericNormalized(o, v, e) ==
  IF e.v = NoVar THEN oct_set(o, v, ConstI(e.k))
  ELSE GenericVar(GenericVerts(o, v), v, e, eval_interval(o, e),
                  diffcsts_of_assign(o, e))

\* assign(x, e) without special_assign, for e = k or e = k + y
oct_assign_generic(o, v, e) ==
  IF o.is_bottom THEN o ELSE GenericNormalized(normalize(o), v, e)

----------------------------------------------------------------------------
(* One program run on two values: self with DefaultParams and alias with    *)
(* SimpleParams.  Every statement is applied to both.                       *)

MaxAssignOps == 3
AssignIntervals == {MkI(Fin(0), Fin(5)), MkI(Fin(2), PInf), MkI(MInf, Fin(3))}
AssignExprs == {[k |-> 1, v |-> y], Var(y), [k |-> 1, v |-> x], Const(4)}
AssignCsts == {Leq(1, y, -3), Leq(-1, y, 1)}

PairRec(op, v, e) ==
  [op |-> op, lhs |-> v, e |-> e, pre_self |-> heap[self.norm_ref],
   pre_alias |-> heap[alias.norm_ref]]

InitAssign ==
  /\ array_map = [a \in Arrays |-> {}]
  /\ inv = NumTop
  /\ index_map = [t \in {} |-> 0]
  /\ saved = [array_map |-> [a \in Arrays |-> {}], inv |-> NumTop]
  /\ heap = [r \in {1, 2} |-> OctTop]
  /\ self = [base_ref |-> Null, norm_ref |-> 1]
  /\ alias = [base_ref |-> Null, norm_ref |-> 2]
  /\ vfac = 0
  /\ last = [op |-> "none", lhs |-> NoVar, e |-> Const(0), pre_self |-> OctTop,
             pre_alias |-> OctTop]
  /\ nops = MaxAssignOps

PairStep(F(_), G(_), rec) ==
  /\ nops > 0
  /\ nops' = nops - 1
  /\ heap' = [heap EXCEPT ![self.norm_ref] = F(@), ![alias.norm_ref] = G(@)]
  /\ last' = rec
  /\ UNCHANGED <<array_map, inv, index_map, saved, self, alias, vfac>>

PairSet(v, intv) ==
  PairStep(LAMBDA o : oct_set(o, v, intv), LAMBDA o : oct_set(o, v, intv),
           PairRec("set", v, Const(0)))
PairAssign(v, e) ==
  PairStep(LAMBDA o : oct_assign(o, v, e),
           LAMBDA o : oct_assign_generic(o, v, e), PairRec("assign", v, e))
PairAddConstraint(cst) ==
  PairStep(LAMBDA o : oct_add_constraint(o, cst),
           LAMBDA o : oct_add_constraint(o, cst),
           PairRec("add_constraint", cst.v, Const(0)))

NextAssign ==
  \/ \E v \in OctVars, intv \in AssignIntervals : PairSet(v, intv)
  \/ \E v \in OctVars, e \in AssignExprs : PairAssign(v, e)
  \/ \E cst \in AssignCsts : PairAddConstraint(cst)

SpecAssign == InitAssign /\ [][NextAssign]_vars

\* C29: assign(x, e) for e with a variable, applied with and without
\* special_assign to one abstract value, gives one abstract value: the same
\* interval for x and the same relations.
C29_AssignPathsAgree ==
  (/\ last.op = "assign"
   /\ last.e.v # NoVar
   /\ SameAbstractValue(last.pre_self, last.pre_alias))
  => /\ oct_get(normalize(heap[self.norm_ref]), last.lhs) =
          oct_get(normalize(heap[alias.norm_ref]), last.lhs)
     /\ SameAbstractValue(heap[self.norm_ref], heap[alias.norm_ref])

\* x := y + 1 was applied on both paths to a state with a bounded y.
C29_Witness ==
  /\ last.op = "assign"
  /\ last.lhs = x
  /\ last.e = [k |-> 1, v |-> y]
  /\ SameAbstractValue(last.pre_self, last.pre_alias)
  /\ oct_get(last.pre_self, y) = MkI(Fin(0), Fin(5))


\* C30: after any sequence of array_init, array_store and array_load on one
\* state, without join or meet, the cells of each offset map have pairwise
\* disjoint byte ranges, each offset holds at most one cell, and every cell
\* has a scalar variable.
C30_CellsDisjoint ==
  \A a \in Arrays :
    /\ \A c, d \in array_map[a] :
         c # d => ~Intersects(c.o, c.s, d.o, d.s) /\ c.o # d.o
    /\ \A c \in array_map[a] : has_scalar(c)

\* A store has killed a cell that overlaps the stored cell, and the offset
\* map holds two cells.
C30_Witness ==
  /\ StoreDone
  /\ \E c \in last.pre.array_map[last.a] :
       /\ Intersects(c.o, c.s, LastOffset, LastSize)
       /\ ~(c.o = LastOffset /\ c.s = LastSize)
       /\ c \notin array_map[last.a]
  /\ Cardinality(array_map[last.a]) >= 2

====
